---- MODULE Spec2Model ----
(***************************************************************************)
(* A model of the tsscm interpreter: the value model, the environment      *)
(* frames, the macro expander, the analyzer (analysis into a tree of       *)
(* compiled nodes, and the runtime closure of every node), the trampoline  *)
(* and the read-eval-print loop that drives them.                          *)
(***************************************************************************)
EXTENDS Integers, Sequences, FiniteSets, TLC

VARIABLES
  input,    \* the forms of the input stream not read yet
  pc,       \* the repl's position: "peek", "closed"
  frames,   \* the heap of Frame objects; frames[1] is the top-level Frame
  macros,   \* SchemeAnalyzer.macros: name -> transformer
  nextAddr, \* the next object identity (SCons, SchemeClosure)
  out,      \* the lines written to the console
  last,     \* observation of the last form: its source, result and trace
  lexer,    \* a Lexer on a text, for the calls of peek and next
  calls,    \* the calls made on lexer and the tokens they returned
  stream,   \* an InputStream: buffer, pos, pendingResolve, eof
  readable, \* the Readable under stream: the text not emitted yet, its state
  consumer  \* the caller of nextChar: the calls made and their results

lexerVars == <<lexer, calls>>
streamVars == <<stream, readable, consumer>>
vars == <<input, pc, frames, macros, nextAddr, out, last, lexerVars, streamVars>>

(***************************************************************************)
(* Bounds of the model.                                                    *)
(***************************************************************************)
\* The largest argument of the counting procedures and of the macro calls.
MaxN == 3
\* The longest list spliced into a template, applied to a procedure or
\* bound to a rest parameter.
MaxList == 3
\* The largest number of operands of an and, of an or and of an application.
MaxForms == 3
\* The largest number of calls made on a Lexer.
MaxCalls == 5
\* The largest number of characters of a 'data' chunk.
MaxChunk == 3

(***************************************************************************)
(* SchemeType: the values.  A Pair and a closure carry the identity of the *)
(* object (addr); the other values are compared by content.                *)
(***************************************************************************)
Num(n)  == [t |-> "num", n |-> n]
Str(s)  == [t |-> "str", s |-> s]
Bool(b) == [t |-> "bool", b |-> b]
Sym(id) == [t |-> "sym", id |-> id]
Nil     == [t |-> "nil"]
Undefined == [t |-> "undefined"]
SCons(addr, car, cdr) == [t |-> "pair", addr |-> addr, car |-> car, cdr |-> cdr]
SchemeBuiltin(name) == [t |-> "builtin", name |-> name]
SchemeClosure(addr, params, restParam, expr, env) ==
  [t |-> "closure", addr |-> addr, params |-> params, restParam |-> restParam,
   expr |-> expr, env |-> env]

\* A thunk taken for a value: what a result that was not forced would be.
Thunk(expr, frame) == [t |-> "thunk", expr |-> expr, frame |-> frame]

False == Bool(FALSE)
True  == Bool(TRUE)

IsPair(v) == v.t = "pair"
IsId(v)   == v.t = "sym"

\* A pair as the reader's input writes it, before the parser allocates it.
P(car, cdr) == SCons(0, car, cdr)

RECURSIVE ListFrom(_, _)
ListFrom(s, tl) == IF s = <<>> THEN tl ELSE P(Head(s), ListFrom(Tail(s), tl))
\* The proper list of the elements of s, and the dotted list ending in tl.
L(s) == ListFrom(s, Nil)

\* A value without the identities of its pairs: structural comparison.
RECURSIVE Strip(_)
Strip(v) ==
  IF IsPair(v) THEN SCons(0, Strip(v.car), Strip(v.cdr)) ELSE v

\* const name = value; ...: the value is computed once, then named.
Let(value, K(_)) == K(value)

\* The data of which a datum is made, itself included.
RECURSIVE Subterms(_)
Subterms(sexp) ==
  IF IsPair(sexp) THEN {sexp} \cup Subterms(sexp.car) \cup Subterms(sexp.cdr)
  ELSE {sexp}

\* SCons[Symbol.iterator]: the cars along the cdr chain, while it is a Pair.
RECURSIVE iterate(_)
iterate(v) == IF IsPair(v) THEN <<v.car>> \o iterate(v.cdr) ELSE <<>>

(***************************************************************************)
(* Helper functions of the analyzer.  A thrown Error is the record         *)
(* [t |-> "error", msg |-> ...].                                           *)
(***************************************************************************)
Error(msg) == [t |-> "error", msg |-> msg]
IsError(v) == v.t = "error"
TypeError == Error("TypeError")

\* An argument that is itself a thrown Error stands for the throw of the
\* expression that computed it.
safeCar(s) ==
  IF IsError(s) THEN s ELSE IF IsPair(s) THEN s.car ELSE Error("car: Expected cons.")
safeCdr(s) ==
  IF IsError(s) THEN s ELSE IF IsPair(s) THEN s.cdr ELSE Error("cdr: Expected cons.")
safeId(s) ==
  IF IsError(s) THEN s ELSE IF IsId(s) THEN s ELSE Error("id: Expected identifier.")
carIsId(sexp, id) == IsPair(sexp) /\ IsId(sexp.car) /\ sexp.car.id = id

(***************************************************************************)
(* Frame: frames is the heap, a Frame is an index into it, 0 is null.      *)
(***************************************************************************)
NullFrame == 0

Frame_new(fs, parent) == Append(fs, [parent |-> parent, bindings |-> <<>>])

Frame_has(fs, f, name) == name \in DOMAIN fs[f].bindings

RECURSIVE Frame_findFrame(_, _, _)
Frame_findFrame(fs, f, name) ==
  IF f = NullFrame THEN NullFrame
  ELSE IF Frame_has(fs, f, name) THEN f
  ELSE Frame_findFrame(fs, fs[f].parent, name)

Frame_lookup(fs, f, name) ==
  LET frame == Frame_findFrame(fs, f, name)
  IN IF frame # NullFrame THEN fs[frame].bindings[name] ELSE Nil

Frame_set(fs, f, name, value) ==
  [fs EXCEPT ![f].bindings =
     [n \in DOMAIN @ \cup {name} |-> IF n = name THEN value ELSE @[n]]]

(***************************************************************************)
(* The host's view of a value cast "as SCons": a property of null throws   *)
(* a TypeError, a property a value does not have is undefined, and only a  *)
(* Pair can be spread ([...x]): Items, or the TypeError.                    *)
(***************************************************************************)
hostCar(v) ==
  IF IsError(v) THEN v
  ELSE IF IsPair(v) THEN v.car
  ELSE IF v = Nil \/ v = Undefined THEN TypeError ELSE Undefined
hostCdr(v) ==
  IF IsError(v) THEN v
  ELSE IF IsPair(v) THEN v.cdr
  ELSE IF v = Nil \/ v = Undefined THEN TypeError ELSE Undefined
Items(s) == [t |-> "items", items |-> s]
spread(v)  == IF IsPair(v) THEN Items(iterate(v)) ELSE TypeError

\* The first thrown Error among the results of s, or ok when there is none.
RECURSIVE FirstError(_, _)
FirstError(s, ok) ==
  IF s = <<>> THEN ok
  ELSE IF IsError(Head(s)) THEN Head(s) ELSE FirstError(Tail(s), ok)

(***************************************************************************)
(* SchemeAnalyzer.analyze: a compiled expression is the record of what its *)
(* closure captured; run (below) is the closure's code.                    *)
(***************************************************************************)
NoNode == [t |-> "none"]

\* getLambdaArgs: [params, rest]; rest is <<>> for null.
RECURSIVE getLambdaArgs(_, _)
getLambdaArgs(sexp, args) ==
  IF sexp = Nil \/ sexp = Undefined THEN [t |-> "args", params |-> args, rest |-> <<>>]
  ELSE IF IsPair(sexp)
    THEN LET id == safeId(sexp.car)
         IN IF IsError(id) THEN id ELSE getLambdaArgs(sexp.cdr, Append(args, id.id))
    ELSE LET id == safeId(sexp)
         IN IF IsError(id) THEN id
            ELSE [t |-> "args", params |-> args, rest |-> <<id.id>>]

RECURSIVE analyze(_, _)
RECURSIVE analyzeQuasiquote(_)

\* bodySexps.map((expr, i) => analyze(expr, tail && i === last))
RECURSIVE analyzeEach(_, _)
analyzeEach(sexps, tail) ==
  IF sexps = <<>> THEN <<>>
  ELSE <<analyze(Head(sexps), tail /\ Len(sexps) = 1)>> \o analyzeEach(Tail(sexps), tail)

analyzeBody(sexp, tail) ==
  LET bodySexps == spread(sexp)
  IN IF IsError(bodySexps) THEN bodySexps
     ELSE LET body == analyzeEach(bodySexps.items, tail)
          IN FirstError(body, [t |-> "body", body |-> body])

analyzeLambda(sexp) ==
  LET formals == hostCar(sexp)
      args == IF IsError(formals) THEN formals ELSE getLambdaArgs(formals, <<>>)
  IN IF IsError(args) THEN args
     ELSE LET bodyFunc == analyzeBody(hostCdr(sexp), TRUE)
          IN IF IsError(bodyFunc) THEN bodyFunc
             ELSE [t |-> "lambda", paramNames |-> args.params,
                   restName |-> args.rest, bodyFunc |-> bodyFunc]

\* id and val of a define or define-macro whose head is a Pair.
analyzeHeader(sexp) ==
  LET id == safeId(safeCar(sexp.car))
      formals == safeCdr(sexp.car)
  IN IF IsError(id) THEN id
     ELSE IF IsError(formals) THEN formals
     ELSE LET val == analyzeLambda(P(formals, sexp.cdr))
          IN IF IsError(val) THEN val ELSE [id |-> id.id, val |-> val]

analyzeDefine(sexp) ==
  LET head == hostCar(sexp)
  IN IF IsError(head) THEN head
     ELSE IF IsPair(head)
       THEN LET h == analyzeHeader(sexp)
            IN IF "t" \in DOMAIN h THEN h
               ELSE [t |-> "define", id |-> h.id, val |-> h.val]
       ELSE LET id == safeId(head)
                valSexp == safeCar(hostCdr(sexp))
            IN IF IsError(id) THEN id
               ELSE IF IsError(valSexp) THEN valSexp
               ELSE LET val == analyze(valSexp, FALSE)
                    IN IF IsError(val) THEN val
                       ELSE [t |-> "define", id |-> id.id, val |-> val]

analyzeSet(sexp) ==
  LET head == hostCar(sexp)
      id == IF IsError(head) THEN head ELSE safeId(head)
      valSexp == safeCar(hostCdr(sexp))
  IN IF IsError(id) THEN id
     ELSE IF IsError(valSexp) THEN valSexp
     ELSE LET val == analyze(valSexp, FALSE)
          IN IF IsError(val) THEN val
             ELSE [t |-> "set", id |-> id.id, val |-> val]

analyzeDefineMacro(sexp) ==
  LET head == hostCar(sexp)
  IN IF IsError(head) THEN head
     ELSE LET h == IF IsPair(head) THEN analyzeHeader(sexp)
                   ELSE Error("car: Expected cons.")
          IN IF "t" \in DOMAIN h THEN h
             ELSE [t |-> "defmacro", id |-> h.id, val |-> h.val]

analyzeApplication(sexp, tail) ==
  LET operator == analyze(sexp.car, FALSE)
  IN IF IsError(operator) THEN operator
     ELSE LET operands == IF IsPair(sexp.cdr)
                            THEN analyzeEach(iterate(sexp.cdr), FALSE)
                            ELSE <<>>
          IN FirstError(operands,
               [t |-> "application", tail |-> tail, operator |-> operator,
                operands |-> operands])

\* analyzeOr and analyzeAnd differ in the constant of the empty form and in
\* the value that stops the evaluation.
analyzeOr(sexp, tail) ==
  IF sexp = Nil THEN [t |-> "const", v |-> False]
  ELSE LET formsList == spread(sexp)
       IN IF IsError(formsList) THEN formsList
          ELSE LET forms == analyzeEach(formsList.items, tail)
               IN FirstError(forms, [t |-> "or", forms |-> forms])

analyzeAnd(sexp, tail) ==
  IF sexp = Nil THEN [t |-> "const", v |-> True]
  ELSE LET formsList == spread(sexp)
       IN IF IsError(formsList) THEN formsList
          ELSE LET forms == analyzeEach(formsList.items, tail)
               IN FirstError(forms, [t |-> "and", forms |-> forms])

analyzeIf(sexp, tail) ==
  LET condSexp == hostCar(sexp)
  IN IF IsError(condSexp) THEN condSexp
     ELSE LET condition == analyze(condSexp, FALSE)
              consSexp == safeCar(hostCdr(sexp))
          IN IF IsError(condition) THEN condition
             ELSE IF IsError(consSexp) THEN consSexp
             ELSE LET consequent == analyze(consSexp, tail)
                      altSexp == safeCdr(hostCdr(sexp))
                  IN IF IsError(consequent) THEN consequent
                     ELSE IF IsError(altSexp) THEN altSexp
                     ELSE LET alternative == IF altSexp # Nil
                                               THEN analyzeBody(altSexp, tail)
                                               ELSE NoNode
                          IN IF IsError(alternative) THEN alternative
                             ELSE [t |-> "if", condition |-> condition,
                                   consequent |-> consequent,
                                   alternative |-> alternative]

\* The elements of a list template: {isSplice, func} along the spine.
RECURSIVE quasiElements(_)
quasiElements(current) ==
  IF ~IsPair(current) THEN <<>>
  ELSE LET elem == current.car
           e == IF carIsId(elem, "unquote-splicing")
                  THEN LET inner == safeCar(elem.cdr)
                       IN [isSplice |-> TRUE,
                           func |-> IF IsError(inner) THEN inner
                                    ELSE analyze(inner, FALSE)]
                  ELSE [isSplice |-> FALSE, func |-> analyzeQuasiquote(elem)]
       IN <<e>> \o quasiElements(current.cdr)

\* The value the spine of a template ends in (its last cdr).
RECURSIVE spineEnd(_)
spineEnd(current) == IF IsPair(current) THEN spineEnd(current.cdr) ELSE current

analyzeQuasiquote(sexp) ==
  IF IsError(sexp) THEN sexp
  ELSE IF ~IsPair(sexp) THEN [t |-> "const", v |-> sexp]
  ELSE IF carIsId(sexp, "unquote")
    THEN LET innerSexp == safeCar(sexp.cdr)
             inner == IF IsError(innerSexp) THEN innerSexp
                      ELSE analyze(innerSexp, FALSE)
         IN IF IsError(inner) THEN inner ELSE [t |-> "unquote", inner |-> inner]
  ELSE IF carIsId(sexp, "unquote-splicing")
    THEN Error("unquote-splicing: not valid at top level of quasiquote")
  ELSE LET elements == quasiElements(sexp)
           current == spineEnd(sexp)
           bad == FirstError([i \in DOMAIN elements |-> elements[i].func], NoNode)
       IN IF IsError(bad) THEN bad
          ELSE LET tailFunc == IF current # Nil THEN analyzeQuasiquote(current)
                               ELSE NoNode
               IN IF IsError(tailFunc) THEN tailFunc
                  ELSE [t |-> "quasiquote", elements |-> elements,
                        tailFunc |-> tailFunc]

analyze(sexp, tail) ==
  IF IsId(sexp) THEN [t |-> "ref", id |-> sexp.id]
  ELSE IF sexp.t \in {"num", "str", "bool", "nil"} THEN [t |-> "const", v |-> sexp]
  ELSE IF IsPair(sexp) THEN
    IF carIsId(sexp, "quote") THEN
      LET quoted == hostCar(sexp.cdr)
      IN IF IsError(quoted) THEN quoted ELSE [t |-> "const", v |-> quoted]
    ELSE IF carIsId(sexp, "lambda") THEN analyzeLambda(sexp.cdr)
    ELSE IF carIsId(sexp, "define") THEN analyzeDefine(sexp.cdr)
    ELSE IF carIsId(sexp, "set!") THEN analyzeSet(sexp.cdr)
    ELSE IF carIsId(sexp, "or") THEN analyzeOr(sexp.cdr, tail)
    ELSE IF carIsId(sexp, "and") THEN analyzeAnd(sexp.cdr, tail)
    ELSE IF carIsId(sexp, "if") THEN analyzeIf(sexp.cdr, tail)
    ELSE IF carIsId(sexp, "define-macro") THEN analyzeDefineMacro(sexp.cdr)
    ELSE IF carIsId(sexp, "quasiquote") THEN analyzeQuasiquote(hostCar(sexp.cdr))
    ELSE analyzeApplication(sexp, tail)
  ELSE Error("Unexpected type")

(***************************************************************************)
(* Evaluation.  st is the interpreter's mutable world while a form is      *)
(* evaluated: the Frame heap, the macro table, the allocator, the console, *)
(* and three observations, the trace of events, the number of closure      *)
(* bodies active on the host stack (cur, and its maximum max) and the      *)
(* nodes that returned a thunk (thunks).                                   *)
(* A result is Done (a final value), Pending (the thunk of a tail call:    *)
(* () => expr(frame)) or Throw (a thrown Error on its way up).             *)
(***************************************************************************)
Done(st, v) == [k |-> "done", st |-> st, v |-> v]
Pending(st, expr, frame) == [k |-> "pending", st |-> st, expr |-> expr, frame |-> frame]
Throw(st, msg) == [k |-> "throw", st |-> st, msg |-> msg]

Log(st, e) == [st EXCEPT !.trace = Append(@, e)]

Max(a, b) == IF a > b THEN a ELSE b

\* The list of the values of s ending in tl, built from the last element to
\* the first, each Pair a new object.
RECURSIVE buildList(_, _, _)
buildList(s, tl, st) ==
  IF s = <<>> THEN [st |-> st, v |-> tl]
  ELSE LET cell == SCons(st.nextAddr, s[Len(s)], tl)
       IN buildList(SubSeq(s, 1, Len(s) - 1), cell,
                    [st EXCEPT !.nextAddr = @ + 1])

\* A walk that leaves out the last element of the list.
listElements_butLast(v) ==
  IF IsPair(v) THEN Items(SubSeq(iterate(v), 1, Len(iterate(v)) - 1))
  ELSE Items(<<>>)

\* The elements of a list value: the cars while the cdr chain is a Pair; a
\* chain that ends in something else than null makes the host read a
\* property of a non-object: undefined, and the loop ends on a TypeError.
RECURSIVE listElements(_)
listElements(v) ==
  IF v = Nil THEN Items(<<>>)
  ELSE IF IsPair(v)
    THEN LET rest == listElements(v.cdr)
         IN IF IsError(rest) THEN rest ELSE Items(<<v.car>> \o rest.items)
    ELSE TypeError

RECURSIVE bindParams(_, _, _, _, _)
bindParams(fs, frame, params, args, i) ==
  IF i > Len(params) THEN fs
  ELSE bindParams(
         Frame_set(fs, frame, params[i], IF i <= Len(args) THEN args[i] ELSE Undefined),
         frame, params, args, i + 1)

\* A binding whose new frame hangs under the most recent frame.
SchemeClosure_bindArgs_dynamic(clo, args, st) ==
  LET frame == Len(st.frames) + 1
  IN [st |-> [st EXCEPT !.frames =
                bindParams(Frame_new(st.frames, Len(st.frames)), frame,
                           clo.params, args, 1)],
      frame |-> frame]

\* A binding that gives the rest parameter the list of all the arguments.
SchemeClosure_bindArgs_restAll(clo, args, st) ==
  LET frame == Len(st.frames) + 1
      fs1 == bindParams(Frame_new(st.frames, clo.env), frame, clo.params, args, 1)
  IN IF clo.restParam # <<>>
       THEN LET restList == buildList(args, Nil, st)
            IN [st |-> [restList.st EXCEPT !.frames =
                          Frame_set(fs1, frame, clo.restParam[1], restList.v)],
                frame |-> frame]
       ELSE [st |-> [st EXCEPT !.frames = fs1], frame |-> frame]

SchemeClosure_bindArgs(clo, args, st) ==
  LET frame == Len(st.frames) + 1
      fs1 == bindParams(Frame_new(st.frames, clo.env), frame, clo.params, args, 1)
  IN IF clo.restParam # <<>>
       THEN LET restArgs == SubSeq(args, Len(clo.params) + 1, Len(args))
                restList == buildList(restArgs, Nil, st)
            IN [st |-> [restList.st EXCEPT !.frames =
                          Frame_set(fs1, frame, clo.restParam[1], restList.v)],
                frame |-> frame]
       ELSE [st |-> [st EXCEPT !.frames = fs1], frame |-> frame]

RECURSIVE run(_, _, _)
RECURSIVE trampoline(_)
RECURSIVE SchemeClosure_eval(_, _, _)

\* this.expr(frame): one activation of a closure body on the host stack.
callExpr(expr, frame, st) ==
  LET st1 == Log([st EXCEPT !.cur = @ + 1, !.max = Max(@, st.cur + 1)],
                 [ev |-> "enter", expr |-> expr, frame |-> frame,
                  depth |-> st.cur + 1])
      r == run(expr, frame, st1)
  IN [r EXCEPT !.st.cur = st.cur]

\* A driver that hands the thunk over as the value.
trampoline_lazy(result) ==
  IF result.k = "pending"
    THEN Done(result.st, Thunk(result.expr, result.frame))
    ELSE result

trampoline(result) ==
  IF result.k = "pending"
    THEN trampoline(callExpr(result.expr, result.frame, result.st))
    ELSE result

bindAndLog(clo, args, st) ==
  Let(SchemeClosure_bindArgs(clo, args, st),
      LAMBDA b :
        [b EXCEPT !.st = Log(@, [ev |-> "call", clo |-> clo, args |-> args,
                                 frame |-> b.frame, pre |-> st.frames,
                                 post |-> b.st.frames,
                                 addr0 |-> st.nextAddr])])

SchemeClosure_eval(clo, args, st) ==
  Let(bindAndLog(clo, args, st),
      LAMBDA b : trampoline(callExpr(clo.expr, b.frame, b.st)))

SchemeClosure_evalTail(clo, args, st) ==
  Let(bindAndLog(clo, args, st),
      LAMBDA b : Pending(b.st, clo.expr, b.frame))

(***************************************************************************)
(* S-expression printing.                                                  *)
(***************************************************************************)
RECURSIVE sexpToStr(_)
RECURSIVE printListTail(_)
printListTail(sexp) ==
  IF sexp = Nil THEN ""
  ELSE IF IsPair(sexp) THEN
    LET rest == printListTail(sexp.cdr)
    IN IF rest = "" THEN " " \o sexpToStr(sexp.car)
       ELSE " " \o sexpToStr(sexp.car) \o rest
  ELSE " . " \o sexpToStr(sexp)

sexpToStr(sexp) ==
  CASE IsId(sexp) -> sexp.id
    [] IsPair(sexp) -> "(" \o sexpToStr(sexp.car) \o printListTail(sexp.cdr) \o ")"
    [] sexp.t = "num" -> ToString(sexp.n)
    [] sexp.t = "str" -> "\"" \o sexp.s \o "\""
    [] sexp.t = "bool" -> IF sexp.b THEN "#t" ELSE "#f"
    [] sexp = Nil -> "()"
    [] sexp.t = "closure" -> "#<closure>"
    [] sexp.t = "builtin" -> "#<builtin>"
    [] sexp.t = "thunk" -> "#<thunk>"
    [] OTHER -> "#<error: Unexpected type B>"

(***************************************************************************)
(* The builtins of initEnv that work on integers, lists and procedures.    *)
(***************************************************************************)
BuiltinNames ==
  {"+", "-", "*", "cons", "car", "cdr", "log", "eq?", "eqv?", "<", ">",
   "null?", "pair?", "list?", "symbol?", "procedure?", "apply"}

initEnv ==
  <<[parent |-> NullFrame,
     bindings |-> [n \in BuiltinNames |-> SchemeBuiltin(n)]]>>

AllNum(args) == \A i \in DOMAIN args : args[i].t = "num"

\* The host's arithmetic on something else than numbers (coercion to a
\* string or to NaN) is outside the model.
NotANumber == "host arithmetic on a value that is not a number"

RECURSIVE Sum(_)
Sum(args) == IF args = <<>> THEN 0 ELSE Head(args).n + Sum(Tail(args))
RECURSIVE Product(_)
Product(args) == IF args = <<>> THEN 1 ELSE Head(args).n * Product(Tail(args))

\* A comparison of Pairs and closures by their structure.
strictEq_structural(a, b) ==
  IF a.t # b.t THEN FALSE
  ELSE IF a.t = "pair" THEN Strip(a) = Strip(b)
  ELSE IF a.t = "closure" THEN [a EXCEPT !.addr = 0] = [b EXCEPT !.addr = 0]
  ELSE IF a.t = "sym" THEN FALSE
  ELSE a = b

\* a === b of the host, and the comparison of eq? and eqv?.
strictEq(a, b) ==
  IF a.t # b.t THEN FALSE
  ELSE IF a.t \in {"pair", "closure"} THEN a.addr = b.addr
  ELSE IF a.t = "sym" THEN FALSE
  ELSE a = b

eqArgs(a, b) == strictEq(a, b) \/ (IsId(a) /\ IsId(b) /\ a.id = b.id)

RECURSIVE builtin(_, _, _)

\* A list? that holds of the empty list and of the Pairs that end in it.
SchemeBuiltin_eval_properList(name, args, st) ==
  LET st1 == Log(st, [ev |-> "builtin", name |-> name, args |-> args])
  IN IF name = "list?" /\ Len(args) = 1
       THEN Done(st1, Bool(\/ args[1] = Nil
                           \/ IsPair(args[1]) /\ ~IsError(listElements(args[1]))))
       ELSE builtin(name, args, st1)

\* SchemeBuiltin.eval(args): the call of the builtin's function, observed.
SchemeBuiltin_eval(name, args, st) ==
  builtin(name, args, Log(st, [ev |-> "builtin", name |-> name, args |-> args]))

builtin(name, args, st) ==
  CASE name = "+" ->
         IF AllNum(args) THEN Done(st, Num(Sum(args))) ELSE Throw(st, NotANumber)
    [] name = "-" ->
         IF args = <<>> THEN Done(st, Undefined)
         ELSE IF AllNum(args) THEN Done(st, Num(args[1].n - Sum(Tail(args))))
         ELSE Throw(st, NotANumber)
    [] name = "*" ->
         IF AllNum(args) THEN Done(st, Num(Product(args))) ELSE Throw(st, NotANumber)
    [] name = "cons" ->
         IF Len(args) # 2 THEN Throw(st, "cons: Expected two arguments.")
         ELSE Done([st EXCEPT !.nextAddr = @ + 1],
                   SCons(st.nextAddr, args[1], args[2]))
    [] name = "car" ->
         IF Len(args) # 1 THEN Throw(st, "car: Expected one argument.")
         ELSE IF ~IsPair(args[1]) THEN Throw(st, "car: Expected a cons cell.")
         ELSE Done(st, args[1].car)
    [] name = "cdr" ->
         IF Len(args) # 1 THEN Throw(st, "cdr: Expected one argument.")
         ELSE IF ~IsPair(args[1]) THEN Throw(st, "cdr: Expected a cons cell.")
         ELSE Done(st, args[1].cdr)
    [] name = "log" ->
         Done([st EXCEPT !.out = Append(@,
                 [i \in DOMAIN args |-> IF args[i].t = "str" THEN args[i].s
                                        ELSE sexpToStr(args[i])])],
              True)
    [] name \in {"eq?", "eqv?"} ->
         IF Len(args) < 2 THEN Throw(st, name \o ": Expected at least two arguments.")
         ELSE Done(st, Bool(\A i \in 2..Len(args) : eqArgs(args[i - 1], args[i])))
    [] name = "<" ->
         IF Len(args) < 2 THEN Throw(st, "<: Expected at least two arguments.")
         ELSE IF ~AllNum(args) THEN Throw(st, NotANumber)
         ELSE Done(st, Bool(\A i \in 2..Len(args) : args[i - 1].n < args[i].n))
    [] name = ">" ->
         IF Len(args) < 2 THEN Throw(st, ">: Expected at least two arguments.")
         ELSE IF ~AllNum(args) THEN Throw(st, NotANumber)
         ELSE Done(st, Bool(\A i \in 2..Len(args) : args[i - 1].n > args[i].n))
    [] name = "null?" ->
         IF Len(args) # 1 THEN Throw(st, "null?: Expected one argument.")
         ELSE Done(st, Bool(args[1] = Nil))
    [] name = "pair?" ->
         IF Len(args) # 1 THEN Throw(st, "null?: Expected one argument.")
         ELSE Done(st, Bool(IsPair(args[1])))
    [] name = "list?" ->
         IF Len(args) # 1 THEN Throw(st, "list?: Expected one argument.")
         ELSE Done(st, Bool(IsPair(args[1])))
    [] name = "symbol?" ->
         IF Len(args) # 1 THEN Throw(st, "symbol?: Expected one argument.")
         ELSE Done(st, Bool(IsId(args[1])))
    [] name = "procedure?" ->
         IF Len(args) # 1 THEN Throw(st, "procedure?: Expected one argument.")
         ELSE Done(st, Bool(args[1].t \in {"closure", "builtin"}))
    [] name = "apply" ->
         IF Len(args) < 2 THEN Throw(st, "apply: Expected at least two arguments.")
         ELSE LET func == args[1]
                  lastArg == args[Len(args)]
              IN IF lastArg # Nil /\ ~IsPair(lastArg)
                   THEN Throw(st, "apply: Last argument must be a list.")
                   ELSE LET spreadArgs == listElements(lastArg)
                        IN IF IsError(spreadArgs) THEN Throw(st, spreadArgs.msg)
                           ELSE LET finalArgs ==
                                      SubSeq(args, 2, Len(args) - 1) \o spreadArgs.items
                                IN IF func.t = "builtin"
                                     THEN SchemeBuiltin_eval(func.name, finalArgs, st)
                                   ELSE IF func.t = "closure"
                                     THEN SchemeClosure_eval(func, finalArgs, st)
                                   ELSE Throw(st,
                                          "apply: First argument must be a function.")

(***************************************************************************)
(* The runtime closures of the analyzed nodes.                             *)
(***************************************************************************)
\* operands.map((operand) => trampoline(operand(frame)))
RECURSIVE evalOperands(_, _, _, _)

\* A map that evaluates the operands from the last to the first.
evalOperands_rightToLeft(operands, frame, st, args) ==
  IF operands = <<>> THEN [k |-> "args", st |-> st, args |-> args]
  ELSE LET r == trampoline(run(operands[Len(operands)], frame, st))
       IN IF r.k = "throw" THEN r
          ELSE evalOperands(SubSeq(operands, 1, Len(operands) - 1), frame, r.st,
                            <<r.v>> \o args)

evalOperands(operands, frame, st, args) ==
  IF operands = <<>> THEN [k |-> "args", st |-> st, args |-> args]
  ELSE Let(trampoline(run(Head(operands), frame, st)),
           LAMBDA r :
             IF r.k = "throw" THEN r
             ELSE evalOperands(Tail(operands), frame, r.st, Append(args, r.v)))

\* A reference that takes a binding to the empty list for no binding.
runRef_nullIsUnbound(node, frame, st) ==
  IF Frame_lookup(st.frames, frame, node.id) = Nil
    THEN Throw(st, "Unbound variable: " \o node.id)
    ELSE Done(st, Frame_lookup(st.frames, frame, node.id))

runRef(node, frame, st) ==
  IF Frame_findFrame(st.frames, frame, node.id) = NullFrame
    THEN Throw(st, "Unbound variable: " \o node.id)
    ELSE Done(st, Frame_lookup(st.frames, frame, node.id))

runLambda(node, frame, st) ==
  Done([st EXCEPT !.nextAddr = @ + 1],
       SchemeClosure(st.nextAddr, node.paramNames, node.restName, node.bodyFunc, frame))

\* A define that assigns to the nearest frame holding the name.
runDefine_nearest(node, frame, st) ==
  LET r == trampoline(run(node.val, frame, st))
      holder == Frame_findFrame(st.frames, frame, node.id)
  IN IF r.k = "throw" THEN r
     ELSE Done([r.st EXCEPT !.frames =
                  Frame_set(@, IF holder = NullFrame THEN frame ELSE holder,
                            node.id, r.v)],
               Sym(node.id))

runDefine(node, frame, st) ==
  Let(trampoline(run(node.val, frame, st)),
      LAMBDA r :
        IF r.k = "throw" THEN r
        ELSE Done([r.st EXCEPT !.frames = Frame_set(@, frame, node.id, r.v)],
                  Sym(node.id)))

\* A set! that writes the frame it is evaluated in.
runSet_current(node, frame, st) ==
  LET targetFrame == Frame_findFrame(st.frames, frame, node.id)
  IN IF targetFrame = NullFrame
       THEN Throw(st, "set!: Unbound variable: " \o node.id)
       ELSE LET r == trampoline(run(node.val, frame, st))
            IN IF r.k = "throw" THEN r
               ELSE Done([r.st EXCEPT !.frames = Frame_set(@, frame, node.id, r.v)],
                         r.v)

\* A set! that defines the name when no frame holds it.
runSet_defines(node, frame, st) ==
  LET targetFrame == Frame_findFrame(st.frames, frame, node.id)
      r == trampoline(run(node.val, frame, st))
  IN IF r.k = "throw" THEN r
     ELSE Done([r.st EXCEPT !.frames =
                  Frame_set(@, IF targetFrame = NullFrame THEN frame
                               ELSE targetFrame, node.id, r.v)],
               r.v)

\* A set! that looks for the frame once the value is computed.
runSet_lateLookup(node, frame, st) ==
  LET r == trampoline(run(node.val, frame, st))
  IN IF r.k = "throw" THEN r
     ELSE IF Frame_findFrame(r.st.frames, frame, node.id) = NullFrame
       THEN Throw(r.st, "set!: Unbound variable: " \o node.id)
     ELSE Done([r.st EXCEPT !.frames =
                  Frame_set(@, Frame_findFrame(r.st.frames, frame, node.id),
                            node.id, r.v)],
               r.v)

runSet(node, frame, st) ==
  LET targetFrame == Frame_findFrame(st.frames, frame, node.id)
  IN IF targetFrame = NullFrame
       THEN Throw(st, "set!: Unbound variable: " \o node.id)
       ELSE Let(trampoline(run(node.val, frame, st)),
                LAMBDA r :
                  IF r.k = "throw" THEN r
                  ELSE Done([r.st EXCEPT !.frames =
                               Frame_set(@, targetFrame, node.id, r.v)],
                            r.v))

runDefineMacro(node, frame, st) ==
  Let(trampoline(run(node.val, frame, st)),
      LAMBDA r :
        IF r.k = "throw" THEN r
        ELSE Done([r.st EXCEPT !.macros =
                     [n \in DOMAIN @ \cup {node.id} |->
                        IF n = node.id THEN r.v ELSE @[n]]],
                  Sym(node.id)))

\* `${func}` of the host: the text of a number, of a string, of a boolean
\* and of null, and [object Object] for an object.
hostString(v) ==
  CASE v.t = "num" -> ToString(v.n)
    [] v.t = "str" -> v.s
    [] v.t = "bool" -> IF v = True THEN "true" ELSE "false"
    [] v.t = "nil" -> "null"
    [] v = Undefined -> "undefined"
    [] OTHER -> "[object Object]"

\* An application that calls the closure from inside the running body
\* whatever its position.
runApplication_noTail(node, frame, st) ==
  LET f == trampoline(run(node.operator, frame, st))
  IN IF f.k = "throw" THEN f
     ELSE LET a == evalOperands(node.operands, frame, f.st, <<>>)
              func == f.v
          IN IF a.k = "throw" THEN a
             ELSE IF func.t = "builtin" THEN builtin(func.name, a.args, a.st)
             ELSE IF func.t = "closure" THEN SchemeClosure_eval(func, a.args, a.st)
             ELSE Throw(a.st, "Not a function: " \o hostString(func))

\* A call that returns the thunk of a closure whatever its position.
applyFunc_alwaysTail(node, func, a) ==
  IF a.k = "throw" THEN a
  ELSE IF func.t = "builtin" THEN SchemeBuiltin_eval(func.name, a.args, a.st)
  ELSE IF func.t = "closure" THEN SchemeClosure_evalTail(func, a.args, a.st)
  ELSE Throw(a.st, "Not a function: " \o hostString(func))

\* A call in which apply, in tail position, hands the closure over to the
\* driver loop.
applyFunc_applyDefers(node, func, a) ==
  IF a.k = "throw" THEN a
  ELSE IF /\ func.t = "builtin" /\ func.name = "apply" /\ node.tail
          /\ Len(a.args) >= 2
          /\ a.args[1].t = "closure"
          /\ ~IsError(listElements(a.args[Len(a.args)]))
    THEN SchemeClosure_evalTail(a.args[1],
                                SubSeq(a.args, 2, Len(a.args) - 1)
                                  \o listElements(a.args[Len(a.args)]).items,
                                a.st)
  ELSE IF func.t = "builtin" THEN SchemeBuiltin_eval(func.name, a.args, a.st)
  ELSE IF func.t = "closure"
    THEN IF node.tail
           THEN SchemeClosure_evalTail(func, a.args, a.st)
           ELSE SchemeClosure_eval(func, a.args, a.st)
  ELSE Throw(a.st, "Not a function: " \o hostString(func))

\* The call of func on the evaluated operands a.
applyFunc(node, func, a) ==
  IF a.k = "throw" THEN a
  ELSE IF func.t = "builtin" THEN SchemeBuiltin_eval(func.name, a.args, a.st)
  ELSE IF func.t = "closure"
    THEN IF node.tail
           THEN SchemeClosure_evalTail(func, a.args, a.st)
           ELSE SchemeClosure_eval(func, a.args, a.st)
  ELSE Throw(a.st, "Not a function: " \o hostString(func))

runApplication(node, frame, st) ==
  Let(trampoline(run(node.operator, frame, st)),
      LAMBDA f :
        IF f.k = "throw" THEN f
        ELSE applyFunc(node, f.v,
                       evalOperands(node.operands, frame, f.st, <<>>)))

\* The loop of analyzeOr over all forms but the last, then the last form.
RECURSIVE runOr(_, _, _)

\* An or that goes on after an operand that is not false.
runOr_noStop(forms, frame, st) ==
  IF Len(forms) = 1 THEN run(forms[1], frame, st)
  ELSE LET r == trampoline(run(Head(forms), frame, st))
       IN IF r.k = "throw" THEN r ELSE runOr(Tail(forms), frame, r.st)

runOr(forms, frame, st) ==
  IF Len(forms) = 1 THEN run(forms[1], frame, st)
  ELSE Let(trampoline(run(Head(forms), frame, st)),
           LAMBDA r :
             IF r.k = "throw" THEN r
             ELSE IF r.v # False THEN r
             ELSE runOr(Tail(forms), frame, r.st))

RECURSIVE runAnd(_, _, _)

\* An and that goes on after a false operand.
runAnd_noStop(forms, frame, st) ==
  IF Len(forms) = 1 THEN run(forms[1], frame, st)
  ELSE LET r == trampoline(run(Head(forms), frame, st))
       IN IF r.k = "throw" THEN r ELSE runAnd(Tail(forms), frame, r.st)

runAnd(forms, frame, st) ==
  IF Len(forms) = 1 THEN run(forms[1], frame, st)
  ELSE Let(trampoline(run(Head(forms), frame, st)),
           LAMBDA r :
             IF r.k = "throw" THEN r
             ELSE IF r.v = False THEN Done(r.st, False)
             ELSE runAnd(Tail(forms), frame, r.st))

RECURSIVE runBody(_, _, _)
runBody(body, frame, st) ==
  IF Len(body) = 1 THEN run(body[1], frame, st)
  ELSE Let(trampoline(run(Head(body), frame, st)),
           LAMBDA r :
             IF r.k = "throw" THEN r ELSE runBody(Tail(body), frame, r.st))

\* An if that tests the condition as the host tests a value: 0, the empty
\* string and null count as false.
runIf_hostTruthy(node, frame, st) ==
  LET c == trampoline(run(node.condition, frame, st))
  IN IF c.k = "throw" THEN c
     ELSE IF c.v \notin {False, Num(0), Str(""), Nil}
       THEN run(node.consequent, frame, c.st)
     ELSE IF node.alternative # NoNode THEN run(node.alternative, frame, c.st)
     ELSE Done(c.st, False)

runIf(node, frame, st) ==
  Let(trampoline(run(node.condition, frame, st)),
      LAMBDA c :
        IF c.k = "throw" THEN c
        ELSE IF c.v # False THEN run(node.consequent, frame, c.st)
        ELSE IF node.alternative # NoNode THEN run(node.alternative, frame, c.st)
        ELSE Done(c.st, False))

\* The loop of analyzeQuasiquote's closure over the elements.
RECURSIVE quasiCollect(_, _, _, _)

\* A loop that pushes the value of a splice as one element.
quasiCollect_noSplice(elements, frame, st, resultElements) ==
  IF elements = <<>> THEN [k |-> "args", st |-> st, args |-> resultElements]
  ELSE LET r == trampoline(run(Head(elements).func, frame, st))
       IN IF r.k = "throw" THEN r
          ELSE quasiCollect(Tail(elements), frame, r.st, Append(resultElements, r.v))

\* A loop that takes a spliced value that is not a list for the empty list.
quasiCollect_lenient(elements, frame, st, resultElements) ==
  IF elements = <<>> THEN [k |-> "args", st |-> st, args |-> resultElements]
  ELSE LET r == trampoline(run(Head(elements).func, frame, st))
       IN IF r.k = "throw" THEN r
          ELSE IF Head(elements).isSplice
            THEN quasiCollect(Tail(elements), frame, r.st,
                              resultElements \o
                                (IF IsPair(r.v) THEN iterate(r.v) ELSE <<>>))
            ELSE quasiCollect(Tail(elements), frame, r.st,
                              Append(resultElements, r.v))

quasiCollect(elements, frame, st, resultElements) ==
  IF elements = <<>> THEN [k |-> "args", st |-> st, args |-> resultElements]
  ELSE Let(trampoline(run(Head(elements).func, frame, st)),
           LAMBDA r :
             IF r.k = "throw" THEN r
             ELSE IF Head(elements).isSplice
               THEN IF r.v # Nil /\ ~IsPair(r.v)
                      THEN Throw(r.st, "unquote-splicing: expected a list")
                      ELSE LET spliced == listElements(r.v)
                           IN IF IsError(spliced) THEN Throw(r.st, spliced.msg)
                              ELSE quasiCollect(Tail(elements), frame, r.st,
                                                resultElements \o spliced.items)
               ELSE quasiCollect(Tail(elements), frame, r.st,
                                 Append(resultElements, r.v)))

runQuasiquote(node, frame, st) ==
  Let(quasiCollect(node.elements, frame, st, <<>>),
      LAMBDA c :
        IF c.k = "throw" THEN c
        ELSE Let(IF node.tailFunc # NoNode
                   THEN trampoline(run(node.tailFunc, frame, c.st))
                   ELSE Done(c.st, Nil),
                 LAMBDA tl :
                   IF tl.k = "throw" THEN tl
                   ELSE LET b == buildList(c.args, tl.v, tl.st)
                        IN Done(b.st, b.v)))

runNode(node, frame, st) ==
  CASE node.t = "ref" -> runRef(node, frame, st)
    [] node.t = "const" -> Done(st, node.v)
    [] node.t = "lambda" -> runLambda(node, frame, st)
    [] node.t = "define" -> runDefine(node, frame, st)
    [] node.t = "set" -> runSet(node, frame, st)
    [] node.t = "defmacro" -> runDefineMacro(node, frame, st)
    [] node.t = "application" -> runApplication(node, frame, st)
    [] node.t = "or" -> runOr(node.forms, frame, st)
    [] node.t = "and" -> runAnd(node.forms, frame, st)
    [] node.t = "if" -> runIf(node, frame, st)
    [] node.t = "unquote" -> trampoline(run(node.inner, frame, st))
    [] node.t = "quasiquote" -> runQuasiquote(node, frame, st)
    [] node.t = "body" -> runBody(node.body, frame, st)

\* What a result shows to its receiver.
Outcome(r) ==
  CASE r.k = "done" -> [k |-> "done", v |-> r.v]
    [] r.k = "throw" -> [k |-> "throw", msg |-> r.msg]
    [] r.k = "pending" -> [k |-> "pending"]

\* The call of an analyzed function on a frame.  The calls of a symbol
\* reference, a define, a set! and a define-macro are observed: the node,
\* the frame, the heap before and after, and the outcome.  A node that returns a thunk is
\* recorded in thunks.
ObservedNodes == {"ref", "define", "set", "defmacro"}

run(node, frame, st) ==
  Let(runNode(node, frame, st),
      LAMBDA r :
        IF r.k = "pending" THEN [r EXCEPT !.st.thunks = Append(@, node)]
        ELSE IF node.t \in ObservedNodes
          THEN [r EXCEPT !.st = Log(@, [ev |-> node.t, id |-> node.id,
                                        val |-> IF node.t = "ref" THEN NoNode
                                                ELSE node.val,
                                        frame |-> frame, fs0 |-> st.frames,
                                        fs1 |-> r.st.frames, res |-> Outcome(r)])]
          ELSE r)

(***************************************************************************)
(* The macro expander.                                                     *)
(***************************************************************************)
Expanded(st, sexp, changed) ==
  [k |-> "expanded", st |-> st, sexp |-> sexp, changed |-> changed]

RECURSIVE expandMacrosSexp(_, _)

\* A pass that expands the head and the car of a Pair and leaves its cdr.
expandMacrosSexp_carOnly(sexp, st) ==
  IF ~IsPair(sexp) THEN Expanded(st, sexp, FALSE)
  ELSE IF IsId(sexp.car) /\ sexp.car.id \in {"quote", "quasiquote"}
    THEN Expanded(st, sexp, FALSE)
  ELSE IF IsId(sexp.car) /\ sexp.car.id \in DOMAIN st.macros
    THEN LET r == SchemeClosure_eval(st.macros[sexp.car.id],
                                     iterate(sexp.cdr), st)
         IN IF r.k = "throw" THEN r ELSE Expanded(r.st, r.v, TRUE)
  ELSE LET a == expandMacrosSexp(sexp.car, st)
       IN IF a.k = "throw" THEN a
          ELSE IF a.changed
            THEN Expanded([a.st EXCEPT !.nextAddr = @ + 1],
                          SCons(a.st.nextAddr, a.sexp, sexp.cdr), TRUE)
            ELSE Expanded(a.st, sexp, FALSE)

\* A pass that takes for invocations the elements of a list, and never the
\* tail of a list.
RECURSIVE expandElements(_, _)
expandElements(sexp, st) ==
  IF ~IsPair(sexp) THEN Expanded(st, sexp, FALSE)
  ELSE LET a == expandMacrosSexp(sexp.car, st)
       IN IF a.k = "throw" THEN a
          ELSE LET d == expandElements(sexp.cdr, a.st)
               IN IF d.k = "throw" THEN d
                  ELSE IF a.changed \/ d.changed
                    THEN Expanded([d.st EXCEPT !.nextAddr = @ + 1],
                                  SCons(d.st.nextAddr, a.sexp, d.sexp), TRUE)
                    ELSE Expanded(d.st, sexp, FALSE)

expandMacrosSexp_elements(sexp, st) ==
  IF ~IsPair(sexp) THEN Expanded(st, sexp, FALSE)
  ELSE IF IsId(sexp.car) /\ sexp.car.id \in {"quote", "quasiquote"}
    THEN Expanded(st, sexp, FALSE)
  ELSE IF /\ IsId(sexp.car)
          /\ sexp.car.id \in DOMAIN st.macros
          /\ st.macros[sexp.car.id].t = "closure"
    THEN LET r == SchemeClosure_eval(st.macros[sexp.car.id],
                                     iterate(sexp.cdr), st)
         IN IF r.k = "throw" THEN r ELSE Expanded(r.st, r.v, TRUE)
  ELSE expandElements(sexp, st)

expandMacrosSexp(sexp, st) ==
  IF ~IsPair(sexp) THEN Expanded(st, sexp, FALSE)
  ELSE IF IsId(sexp.car) /\ sexp.car.id \in {"quote", "quasiquote"}
    THEN Expanded(st, sexp, FALSE)
  ELSE IF /\ IsId(sexp.car)
          /\ sexp.car.id \in DOMAIN st.macros
          /\ st.macros[sexp.car.id].t = "closure"
    THEN LET args == IF sexp.cdr = Nil THEN Items(<<>>) ELSE spread(sexp.cdr)
         IN IF IsError(args) THEN Throw(st, args.msg)
            ELSE Let(SchemeClosure_eval(st.macros[sexp.car.id], args.items, st),
                     LAMBDA r :
                       IF r.k = "throw" THEN r ELSE Expanded(r.st, r.v, TRUE))
  ELSE Let(expandMacrosSexp(sexp.car, st),
           LAMBDA a :
             IF a.k = "throw" THEN a
             ELSE Let(expandMacrosSexp(sexp.cdr, a.st),
                      LAMBDA d :
                        IF d.k = "throw" THEN d
                        ELSE IF a.changed \/ d.changed
                          THEN Expanded([d.st EXCEPT !.nextAddr = @ + 1],
                                        SCons(d.st.nextAddr, a.sexp, d.sexp), TRUE)
                          ELSE Expanded(d.st, sexp, FALSE)))

\* An expansion of one pass.
expandMacros_onePass(sexp, st) ==
  LET e == expandMacrosSexp(sexp, st)
  IN IF e.k = "throw" THEN e
     ELSE Done(e.st, IF e.changed THEN e.sexp ELSE sexp)

RECURSIVE expandMacros(_, _)
expandMacros(sexp, st) ==
  Let(expandMacrosSexp(sexp, st),
      LAMBDA e :
        IF e.k = "throw" THEN e
        ELSE IF ~e.changed THEN Done(e.st, sexp)
        ELSE expandMacros(e.sexp, e.st))

\* An analysis that registers the transformer of a define-macro found in
\* the form.
analyzeSexp_registering(sexp, frame, st) ==
  LET dms == {s \in Subterms(sexp) : carIsId(s, "define-macro")}
      node == analyze(CHOOSE s \in dms : TRUE, FALSE)
      c == runNode(node.val, frame, st)
      st1 == IF dms = {} \/ IsError(node) THEN st
             ELSE [c.st EXCEPT !.macros =
                     [n \in DOMAIN @ \cup {node.id} |->
                        IF n = node.id THEN c.v ELSE @[n]]]
      analyzed == analyze(sexp, FALSE)
  IN IF IsError(analyzed) THEN Throw(st1, analyzed.msg)
     ELSE trampoline(run(analyzed, frame, st1))

\* analyzeSexp(sexp)(frame): the analysis, then the trampoline on the
\* analyzed function's result.
analyzeSexp(sexp, frame, st) ==
  Let(analyze(sexp, FALSE),
      LAMBDA analyzed :
        IF IsError(analyzed) THEN Throw(st, analyzed.msg)
        ELSE trampoline(run(analyzed, frame, st)))

(***************************************************************************)
(* The reader's result: the parser allocates every Pair of a datum.        *)
(***************************************************************************)
\* The number of Pairs of a datum.
RECURSIVE pairs(_)
pairs(datum) == IF IsPair(datum) THEN 1 + pairs(datum.car) + pairs(datum.cdr) ELSE 0

\* The datum with its Pairs allocated from addr on: those of the car, those
\* of the cdr, then the Pair itself.
RECURSIVE allocate(_, _)
allocate(datum, addr) ==
  IF ~IsPair(datum) THEN datum
  ELSE SCons(addr + pairs(datum.car) + pairs(datum.cdr),
             allocate(datum.car, addr),
             allocate(datum.cdr, addr + pairs(datum.car)))

parse(datum, addr) == [v |-> allocate(datum, addr), addr |-> addr + pairs(datum)]

(***************************************************************************)
(* The lexer and the parser on a text.  A character is a string of length  *)
(* one, and NoChar is the null that nextChar returns at the end of input.  *)
(***************************************************************************)
NoChar == ""
NoToken == [type |-> "none"]

Digits == {"0", "1", "2", "3", "4", "5", "6", "7", "8", "9"}
\* /[a-zA-Z_+\-*/<>=?]/
IdentifierStart ==
  {"a", "b", "c", "d", "e", "f", "g", "h", "i", "j", "k", "l", "m", "n", "o",
   "p", "q", "r", "s", "t", "u", "v", "w", "x", "y", "z",
   "A", "B", "C", "D", "E", "F", "G", "H", "I", "J", "K", "L", "M", "N", "O",
   "P", "Q", "R", "S", "T", "U", "V", "W", "X", "Y", "Z",
   "_", "+", "-", "*", "/", "<", ">", "=", "?"}
\* /[a-zA-Z0-9_+\-*/<>=?]/
IdentifierChars == IdentifierStart \cup Digits
\* /\s/ on the characters of the texts of the model
Whitespace == {" ", "\t", "\n", "\r", "\f"}

InputStream_fromString(str) == [buffer |-> str, pos |-> 1]

Lexer(inputStream) ==
  [input |-> inputStream, currentChar |-> NoChar, peekedToken |-> NoToken,
   initialized |-> FALSE]

\* this.currentChar = await this.input.nextChar()
advance(lex) ==
  IF lex.input.pos <= Len(lex.input.buffer)
    THEN [lex EXCEPT !.currentChar =
                       SubSeq(lex.input.buffer, lex.input.pos, lex.input.pos),
                     !.input.pos = @ + 1]
    ELSE [lex EXCEPT !.currentChar = NoChar]

ensureInitialized(lex) ==
  IF lex.initialized THEN lex ELSE [advance(lex) EXCEPT !.initialized = TRUE]

\* do advance() while the character is neither null nor a newline
RECURSIVE skipComment(_)
skipComment(lex) ==
  Let(advance(lex),
      LAMBDA l : IF l.currentChar # NoChar /\ l.currentChar # "\n"
                   THEN skipComment(l) ELSE l)

RECURSIVE skipWhitespace(_)
skipWhitespace(lex) ==
  IF lex.currentChar = NoChar THEN lex
  ELSE IF lex.currentChar \in Whitespace THEN skipWhitespace(advance(lex))
  ELSE IF lex.currentChar = ";" THEN skipWhitespace(skipComment(lex))
  ELSE lex

\* A token read, and the lexer after it.
Token(type, value, lex) == [t |-> "token", type |-> type, value |-> value, lex |-> lex]

\* The number that a numeral of digits denotes.
RECURSIVE digitsValue(_, _)
digitsValue(numStr, acc) ==
  IF numStr = "" THEN acc
  ELSE digitsValue(SubSeq(numStr, 2, Len(numStr)),
                   10 * acc + (CHOOSE d \in 0..9 : ToString(d) = SubSeq(numStr, 1, 1)))

\* parseFloat(numStr) of digits and at most one point; a numeral with a
\* point denotes a number that is kept as its numeral.
parseFloat(numStr) ==
  IF \E i \in 1..Len(numStr) : SubSeq(numStr, i, i) = "."
    THEN [t |-> "num", numeral |-> numStr]
    ELSE Num(digitsValue(numStr, 0))

\* The loop of readNumber.
RECURSIVE readNumberFrom(_, _, _)
readNumberFrom(lex, numStr, hasDecimal) ==
  IF lex.currentChar \in Digits \cup {"."}
    THEN IF lex.currentChar = "." /\ hasDecimal
           THEN Error("Invalid number: \"" \o numStr
                        \o ".\" - unexpected second decimal point")
           ELSE readNumberFrom(advance(lex), numStr \o lex.currentChar,
                               hasDecimal \/ lex.currentChar = ".")
    ELSE Token("Number", parseFloat(numStr), lex)

readNumber(lex, prefix) == readNumberFrom(lex, prefix, prefix = ".")

\* The loop of readIdentifier.
RECURSIVE readIdentifierFrom(_, _)
readIdentifierFrom(lex, identifier) ==
  IF lex.currentChar \in IdentifierChars
    THEN readIdentifierFrom(advance(lex), identifier \o lex.currentChar)
    ELSE Token("Identifier", identifier, lex)

readIdentifier(lex) == readIdentifierFrom(lex, "")

\* The character that an escape sequence of a string literal denotes. The
\* characters NUL, backspace and vertical tab, which no string of TLA+
\* holds, are stand-ins that occur in no text that is read.
Escapes ==
  [c \in {"n", "t", "r", "\\", "\"", "0", "b", "f", "v"} |->
     CASE c = "n" -> "\n" [] c = "t" -> "\t" [] c = "r" -> "\r"
       [] c = "\\" -> "\\" [] c = "\"" -> "\"" [] c = "0" -> "<NUL>"
       [] c = "b" -> "<BS>" [] c = "f" -> "\f" [] c = "v" -> "<VT>"]

\* The loop of readString.
RECURSIVE readStringFrom(_, _)
readStringFrom(lex, str) ==
  IF lex.currentChar = NoChar THEN Error("Unterminated string literal")
  ELSE IF lex.currentChar = "\"" THEN Token("String", Str(str), advance(lex))
  ELSE IF lex.currentChar = "\\"
    THEN Let(advance(lex),
             LAMBDA l :
               IF l.currentChar = NoChar
                 THEN Error("Unexpected end of input in string escape sequence")
               ELSE IF l.currentChar \notin DOMAIN Escapes
                 THEN Error("Unknown escape sequence: \\" \o l.currentChar)
               ELSE readStringFrom(advance(l), str \o Escapes[l.currentChar]))
  ELSE readStringFrom(advance(lex), str \o lex.currentChar)

readString(lex) == readStringFrom(lex, "")

\* The switch of readNextToken on the character char, lex being the lexer
\* after it.
singleCharToken(char, lex) ==
  CASE char = "(" -> Token("LeftParen", Nil, lex)
    [] char = ")" -> Token("RightParen", Nil, lex)
    [] char = "." -> IF lex.currentChar \in Digits THEN readNumber(lex, ".")
                     ELSE Token("Dot", Nil, lex)
    [] char = "'" -> Token("Quote", Nil, lex)
    [] char = "\"" -> readString(lex)
    [] char = "#" ->
         IF lex.currentChar = "t" THEN Token("Boolean", True, advance(lex))
         ELSE IF lex.currentChar = "f" THEN Token("Boolean", False, advance(lex))
         ELSE Error("Unexpected character after #: " \o lex.currentChar)
    [] OTHER -> Error("Unexpected character: " \o char)

readNextToken(lex) ==
  Let(skipWhitespace(ensureInitialized(lex)),
      LAMBDA l :
        IF l.currentChar = NoChar THEN Token("EOF", Nil, l)
        ELSE IF l.currentChar \in Digits THEN readNumber(l, "")
        ELSE IF l.currentChar \in IdentifierStart THEN readIdentifier(l)
        ELSE singleCharToken(l.currentChar, advance(l)))

\* A peek that keeps no token.
Lexer_peek_consuming(lex) == readNextToken(lex)

Lexer_peek(lex) ==
  IF lex.peekedToken = NoToken
    THEN Let(readNextToken(lex),
             LAMBDA r :
               IF IsError(r) THEN r
               ELSE [r EXCEPT !.lex.peekedToken =
                                [type |-> r.type, value |-> r.value]])
    ELSE Token(lex.peekedToken.type, lex.peekedToken.value, lex)

Lexer_next(lex) ==
  IF lex.peekedToken # NoToken
    THEN Token(lex.peekedToken.type, lex.peekedToken.value,
               [lex EXCEPT !.peekedToken = NoToken])
    ELSE readNextToken(lex)

\* A datum parsed, and the lexer after it.
Parsed(v, lex) == [t |-> "parsed", v |-> v, lex |-> lex]

RECURSIVE SchemeParser_parse(_)
RECURSIVE parseListTail(_)

\* The element parsed and the rest of the list: new SCons(car, cdr).
parseElements(lex) ==
  Let(SchemeParser_parse(lex),
      LAMBDA car :
        IF IsError(car) THEN car
        ELSE Let(parseListTail(car.lex),
                 LAMBDA cdr :
                   IF IsError(cdr) THEN cdr
                   ELSE Parsed(P(car.v, cdr.v), cdr.lex)))

\* The cdr of a dotted pair, and the parenthesis that closes it.
parseDotted(lex) ==
  Let(SchemeParser_parse(lex),
      LAMBDA cdr :
        IF IsError(cdr) THEN cdr
        ELSE Let(Lexer_next(cdr.lex),
                 LAMBDA closeParen :
                   IF IsError(closeParen) THEN closeParen
                   ELSE IF closeParen.type # "RightParen"
                     THEN Error("Expected ')' after dotted pair, got "
                                  \o closeParen.type)
                   ELSE Parsed(cdr.v, closeParen.lex)))

parseList(lex) ==
  Let(Lexer_peek(lex),
      LAMBDA token :
        IF IsError(token) THEN token
        ELSE IF token.type = "RightParen"
          THEN Parsed(Nil, Lexer_next(token.lex).lex)
        ELSE parseElements(token.lex))

parseListTail(lex) ==
  Let(Lexer_peek(lex),
      LAMBDA token :
        IF IsError(token) THEN token
        ELSE IF token.type = "RightParen"
          THEN Parsed(Nil, Lexer_next(token.lex).lex)
        ELSE IF token.type = "Dot"
          THEN parseDotted(Lexer_next(token.lex).lex)
        ELSE parseElements(token.lex))

\* 'x: new SCons(new SchemeId("quote"), new SCons(await this.parse(), null))
parseQuoted(lex) ==
  Let(SchemeParser_parse(lex),
      LAMBDA quoted :
        IF IsError(quoted) THEN quoted
        ELSE Parsed(P(Sym("quote"), P(quoted.v, Nil)), quoted.lex))

SchemeParser_parse(lex) ==
  Let(Lexer_next(lex),
      LAMBDA token :
        IF IsError(token) THEN token
        ELSE CASE token.type \in {"Number", "String", "Boolean"} ->
                    Parsed(token.value, token.lex)
               [] token.type = "Identifier" -> Parsed(Sym(token.value), token.lex)
               [] token.type = "LeftParen" -> parseList(token.lex)
               [] token.type = "Quote" -> parseQuoted(token.lex)
               [] OTHER -> Error("Unexpected token: " \o token.type))

\* The datum that the parser reads from the text str, or the Error thrown.
read(str) ==
  Let(SchemeParser_parse(Lexer(InputStream_fromString(str))),
      LAMBDA r : IF IsError(r) THEN r ELSE r.v)

(***************************************************************************)
(* The read-eval-print loop.                                               *)
(***************************************************************************)
env == 1

\* One iteration of the loop on the next form: parse, expandMacros,
\* analyzeSexp, analyzed(env).
replForm ==
  Let([frames |-> frames, macros |-> macros,
       nextAddr |-> parse(Head(input), nextAddr).addr,
       out |-> out, trace |-> <<>>, cur |-> 0, max |-> 0, thunks |-> <<>>],
      LAMBDA st0 :
        Let(expandMacros(parse(Head(input), nextAddr).v, st0),
            LAMBDA expanded :
              IF expanded.k = "throw"
                THEN expanded @@ [phase |-> "expand", expanded |-> Nil,
                                  addr0 |-> st0.nextAddr, xst |-> st0]
                ELSE analyzeSexp(expanded.v, env, expanded.st)
                       @@ [phase |-> "eval", expanded |-> expanded.v,
                           addr0 |-> st0.nextAddr,
                           xst |-> [expanded.st EXCEPT !.trace = <<>>]]))

Observe(r) ==
  [src |-> Head(input), expanded |-> r.expanded, phase |-> r.phase,
   addr0 |-> r.addr0, xst |-> r.xst,
   res |-> IF r.k = "throw" THEN [k |-> "throw", msg |-> r.msg]
           ELSE [k |-> "done", v |-> r.v],
   trace |-> r.st.trace, max |-> r.st.max, thunks |-> r.st.thunks,
   prev |-> [src |-> last.src, res |-> last.res],
   macros0 |-> DOMAIN macros,
   reread |-> IF r.k = "throw" THEN Nil ELSE read(sexpToStr(r.v))]

\* An iteration that evaluates every form in a new top-level frame.
Commit_fresh(r) ==
  /\ frames' = initEnv
  /\ macros' = r.st.macros
  /\ nextAddr' = r.st.nextAddr
  /\ last' = Observe(r)
  /\ input' = Tail(input)

Commit(r) ==
  /\ frames' = r.st.frames
  /\ macros' = r.st.macros
  /\ nextAddr' = r.st.nextAddr
  /\ last' = Observe(r)
  /\ input' = Tail(input)

\* The iteration returned r: console.log(sexpToStr(result)), and again.
Printed(r) ==
  /\ r.k = "done"
  /\ Commit(r)
  /\ out' = Append(r.st.out, <<sexpToStr(r.v)>>)
  /\ pc' = "peek"

\* The iteration threw: finally lexer.close(), and the Error leaves repl.
Thrown(r) ==
  /\ r.k = "throw"
  /\ Commit(r)
  /\ out' = r.st.out
  /\ pc' = "closed"

ReplPrint ==
  /\ pc = "peek"
  /\ input # <<>>
  /\ Printed(replForm)
  /\ UNCHANGED <<lexerVars, streamVars>>

ReplThrow ==
  /\ pc = "peek"
  /\ input # <<>>
  /\ Thrown(replForm)
  /\ UNCHANGED <<lexerVars, streamVars>>

ReplEOF ==
  /\ pc = "peek"
  /\ input = <<>>
  /\ pc' = "closed"
  /\ UNCHANGED <<input, frames, macros, nextAddr, out, last>>
  /\ UNCHANGED <<lexerVars, streamVars>>

(***************************************************************************)
(* The inputs: programs, each a sequence of forms.                         *)
(***************************************************************************)
S(id) == Sym(id)
Quote(x) == L(<<S("quote"), x>>)

\* (define (loop n) (if (< n 1) 'done (loop (- n 1))))
DefLoop ==
  L(<<S("define"), L(<<S("loop"), S("n")>>),
      L(<<S("if"), L(<<S("<"), S("n"), Num(1)>>), Quote(S("done")),
          L(<<S("loop"), L(<<S("-"), S("n"), Num(1)>>)>>)>>)>>)

\* (define (ping n) (if (< n 1) 'done (pong (- n 1)))), and pong likewise.
DefMutual(f, g) ==
  L(<<S("define"), L(<<S(f), S("n")>>),
      L(<<S("if"), L(<<S("<"), S("n"), Num(1)>>), Quote(S("done")),
          L(<<S(g), L(<<S("-"), S("n"), Num(1)>>)>>)>>)>>)

\* (define (count n) (if (< n 1) 0 (+ 1 (count (- n 1))))): not a tail call.
DefCount ==
  L(<<S("define"), L(<<S("count"), S("n")>>),
      L(<<S("if"), L(<<S("<"), S("n"), Num(1)>>), Num(0),
          L(<<S("+"), Num(1),
              L(<<S("count"), L(<<S("-"), S("n"), Num(1)>>)>>)>>)>>)>>)

Call(f, n) == L(<<S(f), Num(n)>>)

TailPrograms ==
  {<<DefLoop, Call("loop", n)>> : n \in 0..MaxN}
    \cup {<<DefMutual("ping", "pong"), DefMutual("pong", "ping"), Call("ping", n)>> :
            n \in 0..MaxN}
    \cup {<<DefCount, Call("count", 1)>>}

\* The literals bound to variables: a number, the empty list and false.
Literals == {Num(1), Num(2), Nil, False}

Define(x, e) == L(<<S("define"), S(x), e>>)
Set(x, e) == L(<<S("set!"), S(x), e>>)
Lambda(params, body) == ListFrom(<<S("lambda"), params>>, L(body))
DefineProc(f, params, body) == ListFrom(<<S("define"), P(S(f), params)>>, L(body))

EnvPrograms ==
  \* a define in a procedure body shadows the top-level binding
  {<<Define("x", v), L(<<Lambda(Nil, <<Define("x", w), S("x")>>)>>), S("x")>> :
     v \in Literals, w \in Literals}
  \* a set! in a procedure body reaches the top-level binding
    \cup {<<Define("x", v), DefineProc("modify", Nil, <<Set("x", w)>>),
            L(<<S("modify")>>), S("x")>> : v \in Literals, w \in Literals}
  \* a set! of a parameter stops at the nearest frame
    \cup {<<Define("x", v),
            L(<<Lambda(L(<<S("x")>>), <<Set("x", w), S("x")>>), Num(0)>>),
            S("x")>> : v \in Literals, w \in Literals}
  \* a reference two frames below the binding
    \cup {<<Define("x", v),
            L(<<Lambda(L(<<S("y")>>), <<L(<<Lambda(Nil, <<S("x")>>)>>)>>), Num(0)>>)>> :
            v \in Literals}
  \* a closure called from a frame that shadows its free variable
    \cup {<<Define("y", v), DefineProc("f", L(<<S("a")>>), <<S("y")>>),
            DefineProc("g", L(<<S("y")>>), <<L(<<S("f"), S("y")>>)>>),
            L(<<S("g"), w>>)>> : v \in Literals, w \in Literals}
    \cup {<<Define("y", v), DefineProc("f", L(<<S("a")>>), <<S("y")>>),
            DefineProc("g", L(<<S("y")>>), <<Set("y", w), L(<<S("f"), S("y")>>)>>),
            L(<<S("g"), Num(0)>>)>> : v \in Literals, w \in Literals}
  \* unbound names
    \cup {<<S("u")>>, <<L(<<Lambda(Nil, <<S("u")>>)>>)>>}
    \cup {<<Set("u", v), S("u")>> : v \in Literals}
    \cup {<<Define("x", v), L(<<Lambda(L(<<S("y")>>), <<Set("u", S("y"))>>), Num(0)>>)>> :
            v \in Literals}

\* (define-macro (double x) (cons '+ (cons x (cons x '()))))
DefDouble ==
  L(<<S("define-macro"), L(<<S("double"), S("x")>>),
      L(<<S("cons"), Quote(S("+")),
          L(<<S("cons"), S("x"),
              L(<<S("cons"), S("x"), Quote(Nil)>>)>>)>>)>>)

\* (define-macro (quad x) (cons 'double (cons (cons 'double (cons x '())) '())))
DefQuad ==
  L(<<S("define-macro"), L(<<S("quad"), S("x")>>),
      L(<<S("cons"), Quote(S("double")),
          L(<<S("cons"),
              L(<<S("cons"), Quote(S("double")),
                  L(<<S("cons"), S("x"), Quote(Nil)>>)>>),
              Quote(Nil)>>)>>)>>)

Quasiquote(x) == L(<<S("quasiquote"), x>>)
Unquote(x) == L(<<S("unquote"), x>>)
UnquoteSplicing(x) == L(<<S("unquote-splicing"), x>>)

Double(x) == L(<<S("double"), x>>)

MacroPrograms ==
  {<<DefDouble, Double(Num(n))>> : n \in 0..MaxN}
    \cup {<<DefDouble, Double(Double(Num(n)))>> : n \in 0..MaxN}
    \cup {<<DefDouble, DefQuad, L(<<S("quad"), Num(n)>>)>> : n \in 0..MaxN}
    \cup {<<DefDouble, L(<<S("+"), Num(1), Double(Num(n))>>)>> : n \in 0..MaxN}
    \cup {<<DefDouble, Quote(Double(Num(n)))>> : n \in 0..MaxN}
    \cup {<<DefDouble, Quasiquote(L(<<S("a"), Unquote(Double(Num(n)))>>))>> :
            n \in 0..MaxN}
    \cup {<<Double(Num(1)), DefDouble>>}
    \cup {<<DefDouble, Double(Num(5))>>,
          <<DefDouble, Quasiquote(L(<<S("a"), Unquote(Double(Num(5)))>>))>>}

\* The lists 1..n for n up to MaxList.
NumList(n) == L([i \in 1..n |-> Num(i)])

Templates ==
  {L(<<S("a"), UnquoteSplicing(S("xs")), S("b")>>),
   L(<<UnquoteSplicing(S("xs")), Num(3)>>),
   L(<<Num(1), UnquoteSplicing(S("xs"))>>),
   L(<<UnquoteSplicing(S("xs")), UnquoteSplicing(S("xs"))>>),
   L(<<S("a"), Unquote(S("xs")), L(<<S("c"), Unquote(S("xs"))>>)>>),
   L(<<S("a"), S("b"), S("c")>>)}

QuasiPrograms ==
  {<<Define("xs", Quote(NumList(n))), Quasiquote(t)>> :
     n \in 0..MaxList, t \in Templates}

\* The templates with a spliced element.
SpliceTemplates ==
  {t \in Templates : \E i \in DOMAIN iterate(t) : iterate(t)[i] = UnquoteSplicing(S("xs"))}

\* Expressions whose value is neither a Pair nor the empty list.
NonListExprs ==
  {Num(1), True, False, Str("s"), Quote(S("q")), S("car"), Lambda(Nil, <<Num(1)>>)}

SpliceErrorPrograms ==
  {<<Define("xs", e), Quasiquote(t)>> : e \in NonListExprs, t \in SpliceTemplates}

\* Conditions whose value is not the Boolean false: 0, 1, the empty string,
\* a string, the empty list, #t, a symbol, a list, a builtin, a closure and
\* the value of (< 1 2).
TruthyConds ==
  {Num(0), Num(1), Str(""), Str("s"), Nil, Quote(Nil), True, Quote(S("a")),
   Quote(L(<<Num(1)>>)), S("car"), Lambda(Nil, <<False>>),
   L(<<S("<"), Num(1), Num(2)>>)}

\* Conditions whose value is the Boolean false: #f and the value of (< 2 1).
FalseConds == {False, L(<<S("<"), Num(2), Num(1)>>)}

\* (if c (define t 1) (define e 2)), (if c (define t 1)) and
\* (if c (define t 1) (define e 2) (define e2 3)).
If(c, alternative) == ListFrom(<<S("if"), c, Define("t", Num(1))>>, L(alternative))

Alternatives ==
  {<<>>, <<Define("e", Num(2))>>, <<Define("e", Num(2)), Define("e2", Num(3))>>}

IfPrograms ==
  {<<If(c, a)>> : c \in TruthyConds \cup FalseConds, a \in Alternatives}

\* The values of the operands of and and or.
OperandValues == {False, True, Num(0)}

\* The operand lists: up to MaxForms values.
OperandLists == UNION {[1..n -> OperandValues] : n \in 0..MaxForms}

\* The variable assigned by the i-th operand.
Var(i) == "a" \o ToString(i)

\* ((lambda (a1 ... an) (op (set! a1 v1) ... (set! an vn))) 0 ... 0): each
\* operand leaves a trace of its evaluation and has the value vi.
Junction(op, vs) ==
  L(<<Lambda(L([i \in DOMAIN vs |-> S(Var(i))]),
             <<ListFrom(<<S(op)>>, L([i \in DOMAIN vs |-> Set(Var(i), vs[i])]))>>)>>
    \o [i \in DOMAIN vs |-> Num(0)])

JunctionPrograms ==
  {<<Junction(op, vs)>> : op \in {"and", "or"}, vs \in OperandLists}

\* (define (list . args) args), (define (sub a b) (- a b)) and
\* (define (sum-all . nums) (apply + nums)).
DefList == DefineProc("list", S("args"), <<S("args")>>)
DefSub == DefineProc("sub", L(<<S("a"), S("b")>>), <<L(<<S("-"), S("a"), S("b")>>)>>)
DefSumAll ==
  DefineProc("sum-all", S("nums"), <<L(<<S("apply"), S("+"), S("nums")>>)>>)

\* The procedures applied, each with the forms that define it.
Procedures ==
  [p \in {"+", "-", "list", "sub"} |->
     CASE p = "list" -> <<DefList>> [] p = "sub" -> <<DefSub>> [] OTHER -> <<>>]

\* The intermediate arguments of an apply: none, one or two.
Intermediates == {<<>>, <<Num(7)>>, <<Num(7), Num(9)>>}

\* (proc a...) and (apply proc a... 'L).
Direct(p, args) == L(<<S(p)>> \o args)
Apply(p, as, list) == L(<<S("apply"), S(p)>> \o as \o <<Quote(list)>>)

\* The numbers 1..n as a sequence of arguments.
Numbers(n) == [i \in 1..n |-> Num(i)]

\* The direct call, then the apply; - is called on one argument at least
\* and sub on two at least.
ApplyPrograms ==
  {Procedures[p] \o <<Direct(p, as \o Numbers(n)), Apply(p, as, NumList(n))>> :
     <<p, as, n>> \in
       {c \in (DOMAIN Procedures) \X Intermediates \X (0..MaxList) :
          Len(c[2]) + c[3] >= (CASE c[1] = "-" -> 1 [] c[1] = "sub" -> 2 [] OTHER -> 0)}}
    \cup {<<DefSumAll, Direct("+", Numbers(n)), Direct("sum-all", Numbers(n))>> :
            n \in 0..MaxList}

\* The i-th fixed parameter, and the formals (p1 ... pk) or (p1 ... pk . r).
Param(i) == "p" \o ToString(i)
Formals(k, rest) ==
  ListFrom([i \in 1..k |-> S(Param(i))], IF rest THEN S("r") ELSE Nil)

\* ((lambda formals body) 1 ... n): the body is the rest parameter when
\* there is one, and otherwise (- 0 p1 ... pk).
CallOn(k, rest, n) ==
  L(<<Lambda(Formals(k, rest),
             <<IF rest THEN S("r")
               ELSE L(<<S("-"), Num(0)>> \o [i \in 1..k |-> S(Param(i))])>>)>>
    \o Numbers(n))

\* The numbers of fixed parameters.
Arities == 0..2

\* A procedure with a rest parameter on k to k + MaxList arguments; a
\* procedure without one on k arguments, then on more.
ArgumentPrograms ==
  {<<CallOn(k, TRUE, k + m)>> : k \in Arities, m \in 0..MaxList}
    \cup {<<CallOn(k, FALSE, k), CallOn(k, FALSE, k + m)>> :
            k \in Arities, m \in 1..MaxList}

\* (define (id v) v) and (define (via v) (id v)), whose body is a tail
\* call: (via e) makes a thunk, which its caller forces.
DefId == DefineProc("id", L(<<S("v")>>), <<S("v")>>)
DefVia == DefineProc("via", L(<<S("v")>>), <<L(<<S("id"), S("v")>>)>>)
Via(e) == L(<<S("via"), e>>)

\* (define-macro (same x) (via x)): a transformer whose body is a tail call.
DefSame == L(<<S("define-macro"), L(<<S("same"), S("x")>>), Via(S("x"))>>)

\* The value of a tail call given to a define, a set!, a builtin, a
\* closure, a condition, a template and the expander.
ForcePrograms ==
  {<<DefId, DefVia>> \o p :
     p \in {<<Define("r", Via(Num(5)))>>,
            <<Define("r", Num(0)), Set("r", Via(Num(5)))>>,
            <<L(<<S("cons"), Via(Num(5)), Via(Nil)>>)>>,
            <<L(<<S("apply"), S("via"), Quote(L(<<Num(5)>>))>>)>>,
            <<L(<<S("id"), Via(Num(5))>>)>>,
            <<L(<<S("if"), Via(False), Num(1), Num(2)>>)>>,
            <<Quasiquote(L(<<S("a"), Unquote(Via(Num(5)))>>))>>,
            <<DefSame, L(<<S("same"), Num(5)>>)>>,
            <<Via(Via(Num(5)))>>}}

\* (define-macro (bad x) (car x)): a transformer that fails on an atom.
DefBad == L(<<S("define-macro"), L(<<S("bad"), S("x")>>), L(<<S("car"), S("x")>>)>>)

\* A definition and a macro, a form that raises an error while it is
\* evaluated or expanded, and forms after it.
ErrorPrograms ==
  {<<Define("x", Num(1)), DefDouble, bad, S("x"), Double(S("x"))>> :
     bad \in {S("u"), Set("u", Num(2)), L(<<S("car"), S("x")>>), L(<<S("x"), Num(2)>>)}}
    \cup {<<Define("x", Num(1)), DefBad, L(<<S("bad"), Num(2)>>), S("x")>>}

\* Data to print: numbers, strings, booleans, symbols, the empty list and
\* proper lists of them.
Data ==
  {Num(0), Num(12), Str(""), Str("s t"), Str("a\\b"), Str("a\"b"), True, False,
   S("a"), S("list?"),
   S("+"), Nil, L(<<Num(1), S("a"), Str("s")>>),
   L(<<L(<<Num(1), Num(20)>>), Nil, True, L(<<S("quote"), S("b")>>)>>)}

\* (- 0 n), whose value is the negative number -n.
Negative(n) == L(<<S("-"), Num(0), Num(n)>>)

\* A datum, a negative number, and a list that holds one.
PrintPrograms ==
  {<<Quote(d)>> : d \in Data}
    \cup {<<Negative(n)>> : n \in 1..MaxN}
    \cup {<<L(<<S("cons"), Num(n), L(<<S("cons"), Negative(n), Quote(Nil)>>)>>)>> :
            n \in 1..MaxN}

\* Operands of eq? and eqv?: numbers, symbols, booleans, the empty list, the
\* Pair bound to p and a Pair made anew, the closure bound to f and a
\* closure made anew, and a builtin.
EqOperands ==
  {Num(1), Num(2), Quote(S("a")), Quote(S("b")), True, False, Quote(Nil),
   S("p"), L(<<S("cons"), Num(1), Num(2)>>),
   S("f"), Lambda(Nil, <<Num(1)>>), S("car")}

\* (define p (cons 1 2)) (define f (lambda () 1)) (eq? a b) (eqv? a b), and
\* the two predicates on three operands.
EqPrograms ==
  {<<Define("p", L(<<S("cons"), Num(1), Num(2)>>)), Define("f", Lambda(Nil, <<Num(1)>>)),
     L(<<S("eq?"), a, b>>), L(<<S("eqv?"), a, b>>)>> : a \in EqOperands, b \in EqOperands}
    \cup {<<Define("p", Quote(L(<<Num(1)>>))), L(<<S("eq?"), a, b, c>>), L(<<S("eqv?"), a, b, c>>)>> :
            a \in {Num(1), S("p")}, b \in {Num(1), Quote(S("a")), S("p")},
            c \in {Num(1), Num(2), S("p")}}

\* The call (id 5) alone, as the last operand of an and and of an or, as
\* the consequent and as the last form of the alternative of an if, and
\* under the three at once: as a top-level form, as the value of a define,
\* and as the first and the last form of the body of a procedure.
TailPositionPrograms ==
  LET call == L(<<S("id"), Num(5)>>)
  IN {<<DefId, DefineProc("t", Nil, <<w, w>>), w, L(<<S("t")>>), Define("y", w)>> :
        w \in {call,
               L(<<S("and"), True, call>>),
               L(<<S("or"), False, call>>),
               L(<<S("if"), True, call>>),
               L(<<S("if"), False, Num(0), Num(1), call>>),
               L(<<S("if"), True, L(<<S("and"), True, L(<<S("or"), False, call>>)>>)>>)}}

\* Operators: a builtin, a closure, and values that are no procedure.
Operators ==
  {S("log"), Lambda(S("r"), <<S("r")>>), Num(5), Quote(S("q")), Str("s"), Quote(Nil)}

\* ((if (define a0 0) f) (define a1 1) ... (define an n)): the evaluation of
\* the operator and of each operand leaves a binding.
OrderForm(f, n) ==
  L(<<L(<<S("if"), Define(Var(0), Num(0)), f>>)>>
      \o [i \in 1..n |-> Define(Var(i), Num(i))])

OrderPrograms == {<<OrderForm(f, n)>> : f \in Operators, n \in 0..MaxForms}

\* A define-macro in the body of a procedure, registered by the call (mk),
\* with an invocation in a procedure defined before that call; a
\* define-macro as the condition of an if whose alternative or consequent
\* holds an invocation; and an invocation after a define-macro that was
\* analyzed and not evaluated.
MacroTimingPrograms ==
  {<<DefineProc("mk", Nil, <<DefDouble>>), DefineProc("h", Nil, <<Double(Num(n))>>),
     L(<<S("mk")>>), Double(Num(n)), L(<<S("h")>>)>> : n \in 1..MaxN}
    \cup {<<L(<<S("if"), DefDouble, Quote(S("ok")), Double(Num(n))>>), Double(Num(n))>> :
            n \in 1..MaxN}
    \cup {<<L(<<S("if"), DefDouble, Double(Num(n))>>)>> : n \in 1..MaxN}
    \cup {<<DefineProc("mk", Nil, <<DefDouble>>), Double(Num(n))>> : n \in 1..MaxN}

\* (define x 1) ((lambda () (set! x (if (define x v) w)) x)) x: the value
\* expression of the set! binds x in the frame of the call; and a set! of
\* the unbound u whose value expression is a define, of w or of u itself.
SetOrderPrograms ==
  {<<Define("x", Num(1)),
     L(<<Lambda(Nil, <<Set("x", L(<<S("if"), Define("x", v), w>>)), S("x")>>)>>),
     S("x")>> : v \in {Num(5), Nil}, w \in {Num(7), False}}
    \cup {<<Set("u", Define(n, Num(1)))>> : n \in {"w", "u"}}

\* After (define-macro (double x) ...): the symbol double in the middle of
\* a list, (if #t double n), so that the tail (double n) of the list is a
\* Pair whose car is double; as the first parameter of a lambda; as the
\* name of a define of a procedure; and in the tail (quote double n) of a
\* list.
ExpandPositionPrograms ==
  {<<DefDouble, L(<<S("if"), True, S("double"), Num(n)>>)>> : n \in 1..MaxN}
    \cup {<<DefDouble, Lambda(L(<<S("double"), S("x")>>), <<Num(n)>>)>> :
            n \in 1..MaxN}
    \cup {<<DefDouble, DefineProc("double", L(<<S("y")>>), <<Num(n)>>),
            S("+")>> : n \in 1..MaxN}
    \cup {<<DefDouble,
            L(<<S("if"), True, Num(0), S("quote"), S("double"), Num(n)>>)>> :
            n \in 1..MaxN}

\* (define (aloop n) (if (< n 1) 'done (apply aloop (- n 1) '()))): the
\* loop of DefLoop with its tail call made through apply.
DefApplyLoop ==
  L(<<S("define"), L(<<S("aloop"), S("n")>>),
      L(<<S("if"), L(<<S("<"), S("n"), Num(1)>>), Quote(S("done")),
          L(<<S("apply"), S("aloop"), L(<<S("-"), S("n"), Num(1)>>),
              Quote(Nil)>>)>>)>>)

ApplyLoopPrograms == {<<DefApplyLoop, Call("aloop", n)>> : n \in {0, 1, 2}}

\* The operands of pair? and list?: the empty list, a dotted pair, proper
\* lists, and values that are no Pair.
PredicateOperands ==
  {Quote(Nil), L(<<S("cons"), Num(1), Num(2)>>), Quote(L(<<Num(1)>>)),
   Quote(L(<<Num(1), Num(2)>>)), Quote(ListFrom(<<Num(1), Num(2)>>, Num(3))),
   Num(0), Quote(S("a")), Str("s"), True, False, S("car"),
   Lambda(Nil, <<Num(1)>>)}

\* (pair? e) (list? e)
PredicatePrograms ==
  {<<L(<<S("pair?"), e>>), L(<<S("list?"), e>>)>> : e \in PredicateOperands}

Programs ==
  TailPrograms \cup EnvPrograms \cup MacroPrograms \cup QuasiPrograms
    \cup SpliceErrorPrograms \cup IfPrograms \cup JunctionPrograms
    \cup ApplyPrograms \cup ArgumentPrograms \cup ForcePrograms
    \cup ErrorPrograms \cup PrintPrograms \cup EqPrograms
    \cup TailPositionPrograms \cup OrderPrograms \cup MacroTimingPrograms
    \cup SetOrderPrograms \cup ExpandPositionPrograms
    \cup ApplyLoopPrograms \cup PredicatePrograms

\* main: a new analyzer, the top-level frame of initEnv, and repl on the
\* forms of program.
ReplStart(program) ==
  /\ input = program
  /\ pc = "peek"
  /\ frames = initEnv
  /\ macros = <<>>
  /\ nextAddr = 1
  /\ out = <<>>
  /\ last = [src |-> Nil, expanded |-> Nil, phase |-> "init", addr0 |-> 1,
             xst |-> [frames |-> initEnv, macros |-> <<>>, nextAddr |-> 1,
                      out |-> <<>>, trace |-> <<>>, cur |-> 0, max |-> 0,
                      thunks |-> <<>>],
             res |-> [k |-> "done", v |-> Nil], trace |-> <<>>, max |-> 0,
             thunks |-> <<>>,
             prev |-> [src |-> Nil, res |-> [k |-> "done", v |-> Nil]],
             macros0 |-> {}, reread |-> Nil]

\* No Lexer is under observation.
LexerIdle ==
  /\ lexer = Lexer(InputStream_fromString(""))
  /\ calls = <<>>

\* pendingResolve = null; a resolve function is named by the number of the
\* call of nextChar whose promise it settles.
NoResolve == 0

\* new InputStream(input): the fields as they are declared. pos counts the
\* characters of buffer from 1.
InputStream(source) ==
  [buffer |-> "", pos |-> 1, pendingResolve |-> NoResolve, eof |-> FALSE]

\* A Readable that is to emit text and was not listened to yet.
Readable_from(text) == [rest |-> text, state |-> "open"]

\* No call of nextChar was made.
Consumer == [calls |-> 0, results |-> <<>>]

\* No InputStream is under observation.
StreamIdle ==
  /\ readable = Readable_from("")
  /\ stream = InputStream(readable)
  /\ consumer = Consumer

Init ==
  /\ \E program \in Programs : ReplStart(program)
  /\ LexerIdle
  /\ StreamIdle

Next == ReplPrint \/ ReplThrow \/ ReplEOF

Spec == Init /\ [][Next]_vars

(***************************************************************************)
(* A Lexer under calls of peek and next.                                   *)
(***************************************************************************)
\* Texts without a lexical error: no token, one token, some tokens of every
\* type with whitespace and a comment.
Texts == {"", "42", "(a . \"s\") ; c", "'(#t 1.5)\n x", "7 ;"}

\* type and value of a token that a call returned.
Returned(token) == [type |-> token.type, value |-> token.value]

\* await lexer.peek()
CallPeek ==
  /\ Len(calls) < MaxCalls
  /\ ~IsError(Lexer_peek(lexer))
  /\ lexer' = Lexer_peek(lexer).lex
  /\ calls' = Append(calls, [op |-> "peek", token |-> Returned(Lexer_peek(lexer))])
  /\ UNCHANGED <<input, pc, frames, macros, nextAddr, out, last, streamVars>>

\* await lexer.next()
CallNext ==
  /\ Len(calls) < MaxCalls
  /\ ~IsError(Lexer_next(lexer))
  /\ lexer' = Lexer_next(lexer).lex
  /\ calls' = Append(calls, [op |-> "next", token |-> Returned(Lexer_next(lexer))])
  /\ UNCHANGED <<input, pc, frames, macros, nextAddr, out, last, streamVars>>

LexerInit ==
  /\ ReplStart(<<>>)
  /\ lexer \in {Lexer(InputStream_fromString(text)) : text \in Texts}
  /\ calls = <<>>
  /\ StreamIdle

LexerNext == CallPeek \/ CallNext

LexerSpec == LexerInit /\ [][LexerNext]_vars

(***************************************************************************)
(* An InputStream between its Readable and one caller of nextChar.         *)
(***************************************************************************)
\* resolve(value), and the stream s after the call that made it.
Resolved(s, value, by) ==
  [stream |-> s,
   resolved |-> <<[call |-> s.pendingResolve, value |-> value, by |-> by]>>]

\* Nothing is resolved.
Unresolved(s) == [stream |-> s, resolved |-> <<>>]

\* A tryResolve that forgets a resolve function it cannot call yet.
tryResolve_dropping(s) ==
  IF s.pendingResolve = NoResolve THEN Unresolved(s)
  ELSE IF s.pos <= Len(s.buffer)
    THEN [Resolved(s, SubSeq(s.buffer, s.pos, s.pos), "tryResolve")
            EXCEPT !.stream.pendingResolve = NoResolve, !.stream.pos = @ + 1]
  ELSE IF s.eof
    THEN [Resolved(s, NoChar, "tryResolve")
            EXCEPT !.stream.pendingResolve = NoResolve]
  ELSE Unresolved([s EXCEPT !.pendingResolve = NoResolve])

tryResolve(s) ==
  IF s.pendingResolve = NoResolve THEN Unresolved(s)
  ELSE IF s.pos <= Len(s.buffer)
    THEN [Resolved(s, SubSeq(s.buffer, s.pos, s.pos), "tryResolve")
            EXCEPT !.stream.pendingResolve = NoResolve, !.stream.pos = @ + 1]
  ELSE IF s.eof
    THEN [Resolved(s, NoChar, "tryResolve")
            EXCEPT !.stream.pendingResolve = NoResolve]
  ELSE Unresolved(s)

\* nextChar(), as the call number call: the promise it returns is settled
\* at once, or its resolve function is kept in pendingResolve.
nextChar(s, call) ==
  IF s.pos <= Len(s.buffer)
    THEN [Resolved([s EXCEPT !.pendingResolve = call],
                   SubSeq(s.buffer, s.pos, s.pos), "nextChar")
            EXCEPT !.stream.pendingResolve = s.pendingResolve,
                   !.stream.pos = @ + 1]
  ELSE IF s.eof
    THEN [Resolved([s EXCEPT !.pendingResolve = call], NoChar, "nextChar")
            EXCEPT !.stream.pendingResolve = s.pendingResolve]
  ELSE Unresolved([s EXCEPT !.pendingResolve = call])

\* The texts of the Readable: empty, of one character, of five.
StreamTexts == {"", "a", "(a b)"}

\* The caller awaits the promise of its last call.
Awaiting == consumer.calls > Len(consumer.results)

\* The caller received null.
ReceivedNull ==
  /\ consumer.results # <<>>
  /\ consumer.results[Len(consumer.results)].value = NoChar

\* The handlers and the call hand the values they resolve to the caller.
Settle(r) ==
  /\ stream' = r.stream
  /\ consumer' = [consumer EXCEPT !.results = @ \o r.resolved]

\* input.on("data", chunk): the next k characters of the text; a Readable
\* may emit an empty chunk.
OnData ==
  \E k \in 0..MaxChunk :
    /\ readable.state = "open"
    /\ k <= Len(readable.rest)
    /\ Settle(tryResolve([stream EXCEPT !.buffer =
                                          @ \o SubSeq(readable.rest, 1, k)]))
    /\ readable' = [readable EXCEPT !.rest = SubSeq(@, k + 1, Len(@))]
    /\ UNCHANGED <<input, pc, frames, macros, nextAddr, out, last, lexerVars>>

\* input.on("end"): the Readable emitted all its text.
OnEnd ==
  /\ readable.state = "open"
  /\ readable.rest = ""
  /\ Settle(tryResolve([stream EXCEPT !.eof = TRUE]))
  /\ readable' = [readable EXCEPT !.state = "ended"]
  /\ UNCHANGED <<input, pc, frames, macros, nextAddr, out, last, lexerVars>>

\* input.on("error"): the Readable fails and emits nothing more.
OnError ==
  /\ readable.state = "open"
  /\ Settle(tryResolve([stream EXCEPT !.eof = TRUE]))
  /\ readable' = [readable EXCEPT !.state = "errored"]
  /\ UNCHANGED <<input, pc, frames, macros, nextAddr, out, last, lexerVars>>

\* await stream.nextChar(), by a caller that awaits no earlier call and
\* that stops at null.
CallNextChar ==
  /\ ~Awaiting
  /\ ~ReceivedNull
  /\ LET r == nextChar(stream, consumer.calls + 1)
     IN /\ stream' = r.stream
        /\ consumer' = [calls |-> consumer.calls + 1,
                        results |-> consumer.results \o r.resolved]
  /\ UNCHANGED <<readable, input, pc, frames, macros, nextAddr, out, last,
                 lexerVars>>

StreamInit ==
  /\ ReplStart(<<>>)
  /\ LexerIdle
  /\ readable \in {Readable_from(text) : text \in StreamTexts}
  /\ stream = InputStream(readable)
  /\ consumer = Consumer

StreamNext == OnData \/ OnEnd \/ OnError \/ CallNextChar

StreamSpec == StreamInit /\ [][StreamNext]_vars

\* The event loop runs every handler whose event is due, and the caller
\* goes on calling; an error may never happen.
StreamFairness ==
  /\ WF_vars(OnData)
  /\ WF_vars(OnEnd)
  /\ WF_vars(CallNextChar)

FairStreamSpec == StreamSpec /\ StreamFairness

(***************************************************************************)
(* Reading the frames and the trace of the last form, for the properties.  *)
(* These operators are stated from the definitions of a chain and of a     *)
(* nearest holder, not from the interpreter's lookup.                      *)
(***************************************************************************)
\* The frames from f up to the global frame, nearest first.
RECURSIVE Chain(_, _)
Chain(fs, f) == IF f = NullFrame THEN <<>> ELSE <<f>> \o Chain(fs, fs[f].parent)

\* The positions on the chain of f of the frames that hold name.
Holders(fs, f, name) ==
  {i \in DOMAIN Chain(fs, f) : name \in DOMAIN fs[Chain(fs, f)[i]].bindings}

Bound(fs, f, name) == Holders(fs, f, name) # {}

\* The nearest frame on the chain of f that holds name.
Nearest(fs, f, name) ==
  Chain(fs, f)[CHOOSE i \in Holders(fs, f, name) :
                 \A j \in Holders(fs, f, name) : i <= j]

\* The frames of fs1 are those of fs0, all unchanged but the binding of
\* name in frame F, which may be new.
OnlyBindingChanged(fs0, fs1, F, name) ==
  /\ DOMAIN fs1 = DOMAIN fs0
  /\ \A g \in DOMAIN fs0 \ {F} : fs1[g] = fs0[g]
  /\ fs1[F].parent = fs0[F].parent
  /\ DOMAIN fs1[F].bindings \ {name} = DOMAIN fs0[F].bindings \ {name}
  /\ \A n \in DOMAIN fs0[F].bindings \ {name} :
       fs1[F].bindings[n] = fs0[F].bindings[n]

Events(kind) == {i \in DOMAIN last.trace : last.trace[i].ev = kind}

Evaluated == last.phase = "eval"

(***************************************************************************)
(* C1                                                                      *)
(***************************************************************************)
\* C1: (loop N) and (ping N), whose recursive calls are tail calls, yield
\* the symbol done for every N, with never more than one closure body
\* active on the host stack: each of the N + 1 activations is entered from
\* the driver loop, at depth 1.
C1_TailCallsConstantStack ==
  \A n \in 0..MaxN :
    (Evaluated /\ last.src \in {Call("loop", n), Call("ping", n)}) =>
      /\ last.res = [k |-> "done", v |-> Sym("done")]
      /\ last.max = 1
      /\ \A i \in Events("enter") : last.trace[i].depth = 1
      /\ Cardinality(Events("enter")) = n + 1

C1_Witness ==
  /\ last.src = Call("ping", MaxN)
  /\ last.res = [k |-> "done", v |-> Sym("done")]
  /\ Cardinality(Events("enter")) = MaxN + 1
  /\ last.max = 1

(***************************************************************************)
(* C2                                                                      *)
(***************************************************************************)
\* The calls of a closure without rest parameter on as many arguments as
\* it has parameters.
ExactCalls ==
  {i \in Events("call") :
     /\ last.trace[i].clo.restParam = <<>>
     /\ Len(last.trace[i].args) = Len(last.trace[i].clo.params)}

\* C2: such a call creates a new frame, leaves the existing frames as they
\* are, gives the new frame the closure's frame as parent and exactly the
\* parameter/argument pairs as bindings, and evaluates the closure's body
\* in it; a procedure called from a frame that shadows its free variable y
\* (and assigns it) returns the y of its own chain.
C2_ClosureCallFrame ==
  /\ \A i \in ExactCalls :
       LET e == last.trace[i]
           C == e.clo
           F == e.frame
       IN /\ F \notin DOMAIN e.pre
          /\ DOMAIN e.post = DOMAIN e.pre \cup {F}
          /\ \A g \in DOMAIN e.pre : e.post[g] = e.pre[g]
          /\ e.post[F].parent = C.env
          /\ DOMAIN e.post[F].bindings = {C.params[j] : j \in DOMAIN C.params}
          /\ \A j \in DOMAIN C.params : e.post[F].bindings[C.params[j]] = e.args[j]
          /\ i + 1 \in Events("enter")
          /\ last.trace[i + 1].expr = C.expr
          /\ last.trace[i + 1].frame = F
  /\ (Evaluated /\ carIsId(last.src, "g")) =>
       last.res = [k |-> "done", v |-> frames[env].bindings["y"]]

C2_Witness ==
  /\ last.src = L(<<S("g"), Num(2)>>)
  /\ last.res = [k |-> "done", v |-> Num(1)]
  /\ \E i \in ExactCalls :
       /\ last.trace[i].clo.params = <<"a">>
       /\ last.trace[i].args = <<Num(2)>>
       /\ last.trace[i].clo.env = env
       /\ last.trace[i].frame > env + 1

(***************************************************************************)
(* C3                                                                      *)
(***************************************************************************)
\* The defines that completed and whose value expression (a literal, a
\* reference or a lambda) changes no frame itself.
Defines ==
  {i \in Events("define") :
     /\ last.trace[i].res.k = "done"
     /\ last.trace[i].val.t \in {"const", "ref", "lambda"}}

\* C3: (define x v) in frame F changes the binding of x in F and nothing
\* else in any frame: an ancestor that binds x keeps its value, and the
\* nearest holder of x from F is then F, with the value of v.
C3_DefineWritesOwnFrame ==
  \A i \in Defines :
    LET e == last.trace[i]
        F == e.frame
    IN /\ OnlyBindingChanged(e.fs0, e.fs1, F, e.id)
       /\ Bound(e.fs1, F, e.id)
       /\ Nearest(e.fs1, F, e.id) = F
       /\ e.val.t = "const" => e.fs1[F].bindings[e.id] = e.val.v
       /\ e.val.t = "ref" =>
            e.fs1[F].bindings[e.id] =
              e.fs0[Nearest(e.fs0, F, e.val.id)].bindings[e.val.id]
       /\ e.val.t = "lambda" =>
            /\ e.fs1[F].bindings[e.id].t = "closure"
            /\ e.fs1[F].bindings[e.id].env = F
            /\ e.fs1[F].bindings[e.id].expr = e.val.bodyFunc
       /\ e.res.v = Sym(e.id)

C3_Witness ==
  \E i \in Defines :
    LET e == last.trace[i]
        A == e.fs0[e.frame].parent
    IN /\ A # NullFrame
       /\ e.id \notin DOMAIN e.fs0[e.frame].bindings
       /\ Bound(e.fs0, A, e.id)
       /\ e.fs1[Nearest(e.fs0, A, e.id)].bindings[e.id] # e.fs1[e.frame].bindings[e.id]
       /\ e.fs1[Nearest(e.fs0, A, e.id)].bindings[e.id]
            = e.fs0[Nearest(e.fs0, A, e.id)].bindings[e.id]

(***************************************************************************)
(* C4                                                                      *)
(***************************************************************************)
\* The set!s that completed and whose value expression is a literal or a
\* reference.
Sets ==
  {i \in Events("set") :
     /\ last.trace[i].res.k = "done"
     /\ last.trace[i].val.t \in {"const", "ref"}}

\* C4: (set! x v) in frame F replaces the value of x in the nearest frame
\* of F's chain that holds x and changes no other binding of any frame;
\* every frame whose nearest holder of x is that frame then reads v; after
\* (modify), whose body assigns the global x, the global frame holds the
\* assigned value.
C4_SetWritesNearestHolder ==
  /\ \A i \in Sets :
       LET e == last.trace[i]
           F == e.frame
       IN /\ Bound(e.fs0, F, e.id)
          /\ OnlyBindingChanged(e.fs0, e.fs1, Nearest(e.fs0, F, e.id), e.id)
          /\ e.id \in DOMAIN e.fs1[Nearest(e.fs0, F, e.id)].bindings
          /\ e.val.t = "const" => e.res.v = e.val.v
          /\ \A g \in DOMAIN e.fs1 :
               (Bound(e.fs1, g, e.id)
                  /\ Nearest(e.fs1, g, e.id) = Nearest(e.fs0, F, e.id)) =>
                 e.fs1[Nearest(e.fs1, g, e.id)].bindings[e.id] = e.res.v
  /\ (Evaluated /\ last.src = L(<<S("modify")>>)) =>
       /\ last.res.k = "done"
       /\ frames[env].bindings["x"] = last.res.v
       /\ \E i \in Sets : last.trace[i].frame # env /\ last.trace[i].id = "x"

C4_Witness ==
  \E i \in Sets :
    LET e == last.trace[i]
        T == Nearest(e.fs0, e.frame, e.id)
    IN /\ T # e.frame
       /\ e.fs0[T].bindings[e.id] # e.res.v
       /\ e.fs1[T].bindings[e.id] = e.res.v
       /\ e.id \notin DOMAIN e.fs1[e.frame].bindings

(***************************************************************************)
(* C5                                                                      *)
(***************************************************************************)
\* C5: a symbol reference changes no frame; it yields the value bound in
\* the nearest frame of the chain that holds the name, whatever the value,
\* and throws "Unbound variable: <name>" exactly when no frame of the chain
\* holds the name.
C5_ReferenceNearestBinding ==
  \A i \in Events("ref") :
    LET e == last.trace[i]
    IN /\ e.fs1 = e.fs0
       /\ IF Bound(e.fs0, e.frame, e.id)
            THEN e.res = [k |-> "done",
                          v |-> e.fs0[Nearest(e.fs0, e.frame, e.id)].bindings[e.id]]
            ELSE e.res = [k |-> "throw", msg |-> "Unbound variable: " \o e.id]

C5_Witness ==
  \E i \in Events("ref") :
    LET e == last.trace[i]
    IN /\ Bound(e.fs0, e.frame, e.id)
       /\ Nearest(e.fs0, e.frame, e.id) \notin {e.frame, e.fs0[e.frame].parent}
       /\ e.res = [k |-> "done", v |-> Nil]

(***************************************************************************)
(* C6                                                                      *)
(***************************************************************************)
\* C6: when no frame of the chain holds x, (set! x v) throws
\* "set!: Unbound variable: x" and changes no frame; the form that failed
\* so leaves every frame that existed before it as it was, and no frame
\* binds x afterwards.
C6_SetUnboundFails ==
  /\ \A i \in Events("set") :
       LET e == last.trace[i]
       IN ~Bound(e.fs0, e.frame, e.id) =>
            /\ e.res = [k |-> "throw", msg |-> "set!: Unbound variable: " \o e.id]
            /\ e.fs1 = e.fs0
  /\ last.res = [k |-> "throw", msg |-> "set!: Unbound variable: u"] =>
       /\ \A f \in DOMAIN last.xst.frames : frames[f] = last.xst.frames[f]
       /\ \A f \in DOMAIN frames : "u" \notin DOMAIN frames[f].bindings

C6_Witness ==
  /\ last.res = [k |-> "throw", msg |-> "set!: Unbound variable: u"]
  /\ \E i \in Events("set") :
       /\ last.trace[i].frame # env
       /\ ~Bound(last.trace[i].fs0, last.trace[i].frame, "u")
       /\ last.trace[i].id = "u"

(***************************************************************************)
(* C7                                                                      *)
(***************************************************************************)
\* The names of the macro table when the expansion of the last form
\* returned.
MacroNames == DOMAIN last.xst.macros

IsMacroCall(t, M) == IsPair(t) /\ IsId(t.car) /\ t.car.id \in M

IsQuotation(t) == IsPair(t) /\ IsId(t.car) /\ t.car.id \in {"quote", "quasiquote"}

\* t holds, at some depth through car and cdr, a Pair whose car names a
\* macro of M.
RECURSIVE HasMacroCall(_, _)
HasMacroCall(t, M) ==
  /\ IsPair(t)
  /\ \/ IsMacroCall(t, M)
     \/ HasMacroCall(t.car, M)
     \/ HasMacroCall(t.cdr, M)

\* The same, for the Pairs reached without entering a Pair whose car is the
\* symbol quote or quasiquote.
RECURSIVE HasOpenMacroCall(_, _)
HasOpenMacroCall(t, M) ==
  /\ IsPair(t)
  /\ ~IsQuotation(t)
  /\ \/ IsMacroCall(t, M)
     \/ HasOpenMacroCall(t.car, M)
     \/ HasOpenMacroCall(t.cdr, M)

\* C7, as stated: the tree expandMacros returns holds no Pair, at any depth
\* through car and cdr, whose car names a macro of the table.
C7_NoMacroCallAtAnyDepth ==
  Evaluated => ~HasMacroCall(last.expanded, MacroNames)

\* C7, amended: the tree expandMacros returns holds no Pair whose car names
\* a macro of the table, among the Pairs reached through car and cdr
\* without entering a Pair whose car is the symbol quote or quasiquote.
C7_NoMacroCallOutsideQuotation ==
  Evaluated => ~HasOpenMacroCall(last.expanded, MacroNames)

C7_Witness ==
  /\ Evaluated
  /\ HasOpenMacroCall(last.src, MacroNames)
  /\ IsPair(last.src.cdr) /\ IsPair(last.src.cdr.cdr)
  /\ IsMacroCall(last.src.cdr.cdr.car, MacroNames)
  /\ ~HasOpenMacroCall(last.expanded, MacroNames)

(***************************************************************************)
(* C8                                                                      *)
(***************************************************************************)
\* C8: expandMacros applied to the tree it returned, with the same macro
\* table, returns a tree of the same structure.
C8_ExpansionIdempotent ==
  Evaluated =>
    LET again == expandMacros(last.expanded, last.xst)
    IN /\ again.k = "done"
       /\ Strip(again.v) = Strip(last.expanded)

C8_Witness ==
  /\ Evaluated
  /\ last.src = L(<<S("quad"), Num(MaxN)>>)
  /\ Strip(last.expanded) =
       L(<<S("+"), L(<<S("+"), Num(MaxN), Num(MaxN)>>),
           L(<<S("+"), Num(MaxN), Num(MaxN)>>)>>)
  /\ Strip(expandMacros(last.expanded, last.xst).v) = Strip(last.expanded)

(***************************************************************************)
(* C9                                                                      *)
(***************************************************************************)
\* `(a ,(double 5))
UnquotedDouble == Quasiquote(L(<<S("a"), Unquote(Double(Num(5)))>>))

\* C9, as stated: with double registered as a macro, `(a ,(double 5))
\* evaluates to (a 10).
C9_MacroInUnquoteExpanded ==
  (last.src = UnquotedDouble /\ "double" \in DOMAIN macros) =>
    /\ last.res.k = "done"
    /\ Strip(last.res.v) = L(<<S("a"), Num(10)>>)

\* What the code does: the template reaches the analyzer unexpanded, and
\* (double 5) is evaluated as the application of a variable named double.
C9_Witness ==
  /\ last.src = UnquotedDouble
  /\ "double" \in DOMAIN macros
  /\ Strip(last.expanded) = last.src
  /\ last.res = [k |-> "throw", msg |-> "Unbound variable: double"]

(***************************************************************************)
(* C10                                                                     *)
(***************************************************************************)
\* The elements of a proper list.
RECURSIVE Elements(_)
Elements(v) == IF IsPair(v) THEN <<v.car>> \o Elements(v.cdr) ELSE <<>>

\* The Pairs of the spine of a list.
RECURSIVE Spine(_)
Spine(v) == IF IsPair(v) THEN <<v.addr>> \o Spine(v.cdr) ELSE <<>>

\* The value of a template over the one variable xs, by the rules of
\* quasiquote: the concatenation of what each element contributes.
RECURSIVE QuasiValue(_, _)
RECURSIVE QuasiItems(_, _)
QuasiItems(t, xs) ==
  IF ~IsPair(t) THEN <<>>
  ELSE (IF t.car = UnquoteSplicing(S("xs")) THEN Elements(xs)
        ELSE <<QuasiValue(t.car, xs)>>) \o QuasiItems(t.cdr, xs)

QuasiValue(t, xs) ==
  IF ~IsPair(t) THEN t
  ELSE IF t = Unquote(S("xs")) THEN xs
  ELSE L(QuasiItems(t, xs))

\* C10: the value of a proper-list template is the list of what its
\* elements contribute, in order, a splice contributing the elements of
\* its value (none for Nil); the Pairs of its spine are distinct and were
\* all allocated by the evaluation of the form. The value that is spliced
\* is a list (a Pair or Nil).
C10_QuasiquoteConcatenates ==
  \A t \in Templates :
    (/\ last.src = Quasiquote(t)
     /\ "xs" \in DOMAIN frames[env].bindings
     /\ t \in SpliceTemplates => frames[env].bindings["xs"].t \in {"pair", "nil"}) =>
      /\ last.res.k = "done"
      /\ Strip(last.res.v) = QuasiValue(t, Strip(frames[env].bindings["xs"]))
      /\ Len(Spine(last.res.v)) = Len(Elements(last.res.v))
      /\ \A i \in DOMAIN Spine(last.res.v) :
           /\ Spine(last.res.v)[i] >= last.addr0
           /\ \A j \in DOMAIN Spine(last.res.v) :
                Spine(last.res.v)[i] = Spine(last.res.v)[j] => i = j

C10_Witness ==
  /\ last.src = Quasiquote(L(<<S("a"), UnquoteSplicing(S("xs")), S("b")>>))
  /\ Strip(frames[env].bindings["xs"]) = L(<<Num(1), Num(2), Num(3)>>)
  /\ Strip(last.res.v) = L(<<S("a"), Num(1), Num(2), Num(3), S("b")>>)

(***************************************************************************)
(* C11                                                                     *)
(***************************************************************************)
\* The last form is a quasiquote whose template has the element ,@xs.
SplicesXs ==
  /\ Evaluated
  /\ carIsId(last.src, "quasiquote")
  /\ last.src.cdr.car \in SpliceTemplates
  /\ "xs" \in DOMAIN last.xst.frames[env].bindings

\* C11: when the value of xs is neither a Pair nor the empty list, the
\* evaluation of a template with the element ,@xs throws "unquote-splicing:
\* expected a list": the form has no result, nothing is printed for it and
\* no Pair is allocated for a result list.
C11_SpliceOfNonListFails ==
  (SplicesXs /\ last.xst.frames[env].bindings["xs"].t \notin {"pair", "nil"}) =>
    /\ last.res = [k |-> "throw", msg |-> "unquote-splicing: expected a list"]
    /\ nextAddr = last.xst.nextAddr
    /\ Len(out) = 1

C11_Witness ==
  /\ SplicesXs
  /\ last.src = Quasiquote(L(<<S("a"), UnquoteSplicing(S("xs")), S("b")>>))
  /\ last.xst.frames[env].bindings["xs"] = Num(1)
  /\ last.res = [k |-> "throw", msg |-> "unquote-splicing: expected a list"]

(***************************************************************************)
(* C12                                                                     *)
(***************************************************************************)
\* The names defined by the last form, in the order of the defines.
Defined == [i \in 1..Cardinality(Events("define")) |->
              last.trace[CHOOSE j \in Events("define") :
                           Cardinality({k \in Events("define") : k <= j}) = i].id]

\* C12: in (if c t e...) the consequent t is evaluated, and no form of the
\* alternative, when the value of c is 0, the empty string, the empty list
\* or any other value than the Boolean false; when it is the Boolean false
\* the forms of the alternative are evaluated in order and t is not, and
\* the if without alternative yields false.
C12_OnlyFalseIsFalse ==
  \A a \in Alternatives :
    /\ \A c \in TruthyConds :
         (Evaluated /\ last.src = If(c, a)) =>
           /\ last.res = [k |-> "done", v |-> Sym("t")]
           /\ Defined = <<"t">>
           /\ DOMAIN frames[env].bindings = BuiltinNames \cup {"t"}
    /\ \A c \in FalseConds :
         (Evaluated /\ last.src = If(c, a)) =>
           /\ last.res = [k |-> "done",
                          v |-> IF a = <<>> THEN False ELSE Sym(a[Len(a)].cdr.car.id)]
           /\ Defined = [i \in DOMAIN a |-> a[i].cdr.car.id]
           /\ "t" \notin DOMAIN frames[env].bindings

C12_Witness ==
  /\ Evaluated
  /\ last.src = If(Num(0), <<Define("e", Num(2))>>)
  /\ last.res = [k |-> "done", v |-> Sym("t")]
  /\ frames[env].bindings["t"] = Num(1)
  /\ "e" \notin DOMAIN frames[env].bindings

(***************************************************************************)
(* C13                                                                     *)
(***************************************************************************)
\* The names assigned by the last form, in the order of the assignments.
Assigned == [i \in 1..Cardinality(Events("set")) |->
               last.trace[CHOOSE j \in Events("set") :
                            Cardinality({k \in Events("set") : k <= j}) = i].id]

\* The position of the first operand of vs whose value is in stop, or the
\* number of operands when there is none.
FirstIn(vs, stop) ==
  IF \E i \in DOMAIN vs : vs[i] \in stop
    THEN CHOOSE i \in DOMAIN vs : vs[i] \in stop /\ \A j \in 1..(i - 1) : vs[j] \notin stop
    ELSE Len(vs)

\* C13: (and e1 ... en) evaluates e1, e2, ... in this order up to the first
\* operand whose value is false, and no operand after it; it yields false
\* when there is one, the value of en when there is none, and true when
\* n = 0.
C13_AndShortCircuits ==
  \A vs \in OperandLists :
    (Evaluated /\ last.src = Junction("and", vs)) =>
      /\ Assigned = [i \in 1..FirstIn(vs, {False}) |-> Var(i)]
      /\ last.res = [k |-> "done",
                     v |-> IF vs = <<>> THEN True
                           ELSE IF \E i \in DOMAIN vs : vs[i] = False THEN False
                           ELSE vs[Len(vs)]]

C13_Witness ==
  /\ Evaluated
  /\ last.src = Junction("and", <<Num(0), False, True>>)
  /\ Assigned = <<Var(1), Var(2)>>
  /\ last.res = [k |-> "done", v |-> False]

(***************************************************************************)
(* C14                                                                     *)
(***************************************************************************)
\* C14: (or e1 ... en) evaluates e1, e2, ... in this order up to the first
\* operand whose value is not false, and no operand after it; it yields
\* that value when there is one, and false when every operand is false or
\* n = 0.
C14_OrShortCircuits ==
  \A vs \in OperandLists :
    (Evaluated /\ last.src = Junction("or", vs)) =>
      /\ Assigned = [i \in 1..FirstIn(vs, OperandValues \ {False}) |-> Var(i)]
      /\ last.res = [k |-> "done",
                     v |-> IF \E i \in DOMAIN vs : vs[i] # False
                             THEN vs[FirstIn(vs, OperandValues \ {False})]
                             ELSE False]

C14_Witness ==
  /\ Evaluated
  /\ last.src = Junction("or", <<False, Num(0), True>>)
  /\ Assigned = <<Var(1), Var(2)>>
  /\ last.res = [k |-> "done", v |-> Num(0)]

(***************************************************************************)
(* C15                                                                     *)
(***************************************************************************)
\* A result without the identities of the Pairs of its value.
Structure(res) == IF res.k = "done" THEN [res EXCEPT !.v = Strip(@)] ELSE res

\* C15: (apply proc a1 ... ak 'L), for a builtin or a closure proc, k
\* intermediate arguments and a proper list L, has the result of the call
\* (proc a1 ... ak l1 ... ln) evaluated just before it; and a procedure that
\* applies + to its rest parameter has the result of + on its arguments.
C15_ApplyIsDirectCall ==
  /\ \A p \in DOMAIN Procedures, as \in Intermediates, n \in 0..MaxList :
       (/\ Evaluated
        /\ last.src = Apply(p, as, NumList(n))
        /\ last.prev.src = Direct(p, as \o Numbers(n))) =>
         /\ last.res.k = "done"
         /\ Structure(last.res) = Structure(last.prev.res)
  /\ \A n \in 0..MaxList :
       (/\ Evaluated
        /\ last.src = Direct("sum-all", Numbers(n))
        /\ last.prev.src = Direct("+", Numbers(n))) =>
         last.res = last.prev.res

C15_Witness ==
  /\ Evaluated
  /\ last.src = Apply("sub", <<Num(7)>>, NumList(2))
  /\ last.prev.src = Direct("sub", <<Num(7), Num(1), Num(2)>>)
  /\ last.res = [k |-> "done", v |-> Num(6)]
  /\ last.prev.res = last.res
  /\ \E i \in Events("call") : last.trace[i].args = <<Num(7), Num(1), Num(2)>>

(***************************************************************************)
(* C16                                                                     *)
(***************************************************************************)
\* The calls of a closure on as many arguments as it has fixed parameters,
\* or more.
FullCalls ==
  {i \in Events("call") : Len(last.trace[i].args) >= Len(last.trace[i].clo.params)}

\* C16: a call of a closure with k fixed parameters on n >= k arguments
\* binds the j-th parameter to the j-th argument; its rest parameter, when
\* it has one, to a proper list of the arguments k+1 .. n in call order,
\* whose Pairs are distinct and allocated by the call (the empty list when
\* n = k); without a rest parameter the new frame binds the k parameters
\* and nothing else, and the call on n > k arguments has the result of the
\* call on the first k evaluated just before it.
C16_ArgumentBinding ==
  /\ \A i \in FullCalls :
       LET e == last.trace[i]
           C == e.clo
           k == Len(C.params)
           B == e.post[e.frame].bindings
       IN /\ \A j \in 1..k : B[C.params[j]] = e.args[j]
          /\ IF C.restParam # <<>>
               THEN /\ DOMAIN B = {C.params[j] : j \in 1..k} \cup {C.restParam[1]}
                    /\ Elements(B[C.restParam[1]]) = SubSeq(e.args, k + 1, Len(e.args))
                    /\ Strip(B[C.restParam[1]]) = L(SubSeq(e.args, k + 1, Len(e.args)))
                    /\ \A a \in DOMAIN Spine(B[C.restParam[1]]) :
                         /\ Spine(B[C.restParam[1]])[a] >= e.addr0
                         /\ \A b \in DOMAIN Spine(B[C.restParam[1]]) :
                              Spine(B[C.restParam[1]])[a] = Spine(B[C.restParam[1]])[b]
                                => a = b
               ELSE DOMAIN B = {C.params[j] : j \in 1..k}
  /\ \A k \in Arities, m \in 1..MaxList :
       (/\ Evaluated
        /\ last.src = CallOn(k, FALSE, k + m)
        /\ last.prev.src = CallOn(k, FALSE, k)) =>
         /\ last.res.k = "done"
         /\ last.res = last.prev.res

C16_Witness ==
  /\ Evaluated
  /\ last.src = CallOn(2, TRUE, 4)
  /\ Strip(last.res.v) = L(<<Num(3), Num(4)>>)
  /\ \E i \in FullCalls :
       /\ last.trace[i].clo.params = <<Param(1), Param(2)>>
       /\ last.trace[i].clo.restParam = <<"r">>
       /\ last.trace[i].args = Numbers(4)

(***************************************************************************)
(* C17                                                                     *)
(***************************************************************************)
\* v is not a thunk and no car or cdr reachable in v is one.
RECURSIVE NoThunk(_)
NoThunk(v) ==
  /\ v.t # "thunk"
  /\ IsPair(v) => NoThunk(v.car) /\ NoThunk(v.cdr)

\* No binding of a frame of the heap fs holds a thunk.
NoThunkInFrames(fs) ==
  \A f \in DOMAIN fs : \A n \in DOMAIN fs[f].bindings : NoThunk(fs[f].bindings[n])

\* The heaps and the argument vectors that an event of the trace shows.
EventHeaps(e) ==
  CASE e.ev \in ObservedNodes -> {e.fs0, e.fs1}
    [] e.ev = "call" -> {e.pre, e.post}
    [] OTHER -> {}
EventArgs(e) == IF e.ev \in {"call", "builtin"} THEN e.args ELSE <<>>

\* C17: no thunk is observable: between the forms and at every event of
\* the evaluation of a form, no binding of a frame, no car or cdr of a
\* bound, passed or returned value, and no entry of the macro table is a
\* thunk; no element of the argument vector of a builtin or of a closure
\* is one; and what analyzeSexp's function returns is a final value.
C17_NoThunkObservable ==
  /\ NoThunkInFrames(frames)
  /\ \A m \in DOMAIN macros : NoThunk(macros[m])
  /\ \A i \in DOMAIN last.trace :
       /\ \A fs \in EventHeaps(last.trace[i]) : NoThunkInFrames(fs)
       /\ \A a \in DOMAIN EventArgs(last.trace[i]) : NoThunk(EventArgs(last.trace[i])[a])
  /\ last.res.k \in {"done", "throw"}
  /\ last.res.k = "done" => NoThunk(last.res.v)

C17_Witness ==
  /\ Evaluated
  /\ last.src = Define("r", Via(Num(5)))
  \* the bodies of via and of id ran one after the other, not nested: the
  \* second is the thunk that via returned, forced by the define
  /\ Cardinality(Events("enter")) = 2
  /\ last.max = 1
  /\ frames[env].bindings["r"] = Num(5)

(***************************************************************************)
(* C18                                                                     *)
(***************************************************************************)
\* The name that a define form binds: x of (define x e) and f of
\* (define (f . formals) body...).
DefinedName(form) ==
  IF IsPair(form.cdr.car) THEN form.cdr.car.car.id ELSE form.cdr.car.id

\* The names bound in the top-level frame of the heap fs.
TopLevel(fs) == DOMAIN fs[env].bindings

\* One step of the loop.
C18_Step ==
  /\ pc = "peek"
  /\ IF input = <<>>
       \* the loop ends at the end of the input, and changes nothing
       THEN pc' = "closed" /\ UNCHANGED <<frames, macros, out, last>>
       ELSE \* the form taken is the first of the input not read yet, and
            \* it is the only one taken
            /\ last'.src = Head(input)
            /\ input' = Tail(input)
            /\ last'.prev.src = last.src
            \* it is evaluated with every top-level binding that the forms
            \* before it left, and leaves them bound
            /\ TopLevel(frames) \subseteq TopLevel(last'.xst.frames)
            /\ TopLevel(last'.xst.frames) \subseteq TopLevel(frames')
            \* a top-level define that completes leaves its name bound
            /\ (carIsId(last'.expanded, "define") /\ last'.res.k = "done") =>
                 DefinedName(last'.expanded) \in TopLevel(frames')
            \* its value is printed before the next form is read
            /\ last'.res.k = "done" =>
                 /\ Len(out') > Len(out)
                 /\ out'[Len(out')] = <<sexpToStr(last'.res.v)>>
                 /\ pc' = "peek"
            \* the loop goes on unless the form raised an error
            /\ pc' = "closed" => last'.res.k = "throw"

C19_ErrorAbortsOnlyTheForm ==
  last.res.k = "throw" =>
    /\ pc = "peek"
    /\ DOMAIN last.xst.macros \subseteq DOMAIN macros
    /\ TopLevel(last.xst.frames) \subseteq TopLevel(frames)

\* The form u raised an error after (define x 1): the loop has ended with
\* the forms x and (double x) unread, x and double still defined.
C19_Witness ==
  /\ last.src = S("u")
  /\ last.res = [k |-> "throw", msg |-> "Unbound variable: u"]
  /\ pc = "closed"
  /\ input = <<S("x"), Double(S("x"))>>
  /\ frames[env].bindings["x"] = Num(1)
  /\ "double" \in DOMAIN macros

(***************************************************************************)
(* C20                                                                     *)
(***************************************************************************)
\* The values that are a number, a boolean, a symbol, a string, the empty
\* list or a proper list of such values.
RECURSIVE Printable(_)
Printable(v) ==
  \/ v.t \in {"num", "bool", "sym", "str", "nil"}
  \/ /\ IsPair(v)
     /\ Printable(v.car)
     /\ v.cdr = Nil \/ (IsPair(v.cdr) /\ Printable(v.cdr))

\* C20: the printed form of the value of a form, when the value is a
\* number, a boolean, a symbol, a string, the empty list or a proper list of
\* such values, is read back by the lexer and the parser as a value of the
\* same structure.
C20_ReadPrintRoundTrip ==
  (last.res.k = "done" /\ Printable(last.res.v)) =>
    last.reread = Strip(last.res.v)

\* The value of (- 0 1) is the number -1, printed -1 and read back as the
\* symbol -1.
C20_Witness ==
  /\ last.src = Negative(1)
  /\ last.res = [k |-> "done", v |-> Num(0 - 1)]
  /\ out[Len(out)] = <<"-1">>
  /\ last.reread = Sym("-1")

(***************************************************************************)
(* C21                                                                     *)
(***************************************************************************)
\* Two values are the same: symbols of one name, one number, one boolean,
\* the empty list twice, one Pair, one procedure.
Same(a, b) ==
  CASE a.t = "sym" /\ b.t = "sym" -> a.id = b.id
    [] a.t \in {"num", "bool", "nil"} /\ b.t = a.t -> a = b
    [] a.t = "pair" /\ b.t = "pair" -> a.addr = b.addr
    [] a.t = "closure" /\ b.t = "closure" -> a.addr = b.addr
    [] a.t = "builtin" /\ b.t = "builtin" -> a.name = b.name
    [] OTHER -> FALSE

\* C21: (eq? a1 ... an) and (eqv? a1 ... an), n >= 2, apply the builtin to
\* the values of the operands and yield true exactly when every two adjacent
\* values are the same: symbols by name, numbers, booleans and the empty
\* list by value, Pairs and procedures by identity.
C21_EqIsIdentity ==
  (/\ Evaluated
   /\ carIsId(last.src, "eq?") \/ carIsId(last.src, "eqv?")
   /\ Len(iterate(last.src)) >= 3) =>
    /\ last.trace # <<>>
    /\ last.trace[Len(last.trace)].ev = "builtin"
    /\ last.trace[Len(last.trace)].name = last.src.car.id
    /\ Len(last.trace[Len(last.trace)].args) = Len(iterate(last.src)) - 1
    /\ last.res =
         [k |-> "done",
          v |-> Bool(\A i \in 2..Len(last.trace[Len(last.trace)].args) :
                       Same(last.trace[Len(last.trace)].args[i - 1],
                            last.trace[Len(last.trace)].args[i]))]

\* (eq? (cons 1 2) (cons 1 2)) is false, its operands being two Pairs of one
\* structure.
C21_Witness ==
  /\ Evaluated
  /\ last.src = L(<<S("eq?"), L(<<S("cons"), Num(1), Num(2)>>), L(<<S("cons"), Num(1), Num(2)>>)>>)
  /\ Strip(last.trace[Len(last.trace)].args[1]) = Strip(last.trace[Len(last.trace)].args[2])
  /\ last.trace[Len(last.trace)].args[1].addr # last.trace[Len(last.trace)].args[2].addr
  /\ last.res = [k |-> "done", v |-> False]

(***************************************************************************)
(* C22                                                                     *)
(***************************************************************************)
\* The node is the application of a tail call, or the tail call is the last
\* form of this body, the consequent or the last form of the alternative of
\* this if, or the last operand of this and or of this or.
RECURSIVE TailReach(_)
TailReach(node) ==
  CASE node.t = "application" -> node.tail
    [] node.t = "body" -> TailReach(node.body[Len(node.body)])
    [] node.t \in {"and", "or"} -> TailReach(node.forms[Len(node.forms)])
    [] node.t = "if" ->
         \/ TailReach(node.consequent)
         \/ node.alternative # NoNode /\ TailReach(node.alternative)
    [] OTHER -> FALSE

\* C22: the nodes that returned a thunk while the last form was expanded
\* and evaluated lead to the application of a tail call through last forms
\* of bodies, branches of ifs and last operands of ands and ors only; no
\* expression of the form analyzed with tail = false is such a node, and the
\* application nodes among them called a closure.
C22_ThunkOnlyFromTailCall ==
  /\ \A i \in DOMAIN last.thunks : TailReach(last.thunks[i])
  /\ \A sexp \in Subterms(last.expanded) :
       IsError(analyze(sexp, FALSE)) \/ ~TailReach(analyze(sexp, FALSE))
  /\ (Evaluated /\ ~IsError(analyze(last.expanded, FALSE))) =>
       \A i \in DOMAIN last.thunks : last.thunks[i] # analyze(last.expanded, FALSE)

\* (t), whose body is (and #t (id 5)) twice: the second and, its application
\* and the body returned a thunk, the first and did not.
C22_Witness ==
  /\ Evaluated
  /\ last.src = L(<<S("t")>>)
  /\ last.res = [k |-> "done", v |-> Num(5)]
  /\ Len(last.thunks) = 3
  /\ {last.thunks[i].t : i \in DOMAIN last.thunks} = {"application", "and", "body"}
  /\ \A i \in DOMAIN last.thunks : TailReach(last.thunks[i])

(***************************************************************************)
(* C23                                                                     *)
(***************************************************************************)
\* The events of the last form that dispatch on a procedure: the call of a
\* builtin and the call of a closure.
Dispatches == Events("builtin") \cup Events("call")

\* C23: in ((if (define a0 0) f) (define a1 1) ... (define an n)) the
\* defines take place once each in the order a0, a1, ..., an and all their
\* bindings are made; a builtin or a closure f is then called once, after
\* the last define, on the n values in order; and when f is no procedure
\* the form fails with "Not a function" and nothing is called.
C23_OperatorThenOperandsThenDispatch ==
  \A f \in Operators, n \in 0..MaxForms :
    (Evaluated /\ last.src = OrderForm(f, n)) =>
      /\ Defined = [i \in 1..(n + 1) |-> Var(i - 1)]
      /\ \A i \in 0..n : /\ Var(i) \in DOMAIN frames[env].bindings
                          /\ frames[env].bindings[Var(i)] = Num(i)
      /\ IF f = S("log") \/ carIsId(f, "lambda")
           THEN /\ last.res.k = "done"
                /\ Cardinality(Dispatches) = 1
                /\ \A j \in Dispatches :
                     /\ last.trace[j].ev = (IF f = S("log") THEN "builtin" ELSE "call")
                     /\ last.trace[j].args = [i \in 1..n |-> Sym(Var(i))]
                     /\ \A d \in Events("define") : d < j
           ELSE /\ last.res.k = "throw"
                /\ SubSeq(last.res.msg, 1, 14) = "Not a function"
                /\ Dispatches = {}

\* The operator is the number 5 and there are three operands: the four
\* bindings are made and the form fails.
C23_Witness ==
  /\ Evaluated
  /\ last.src = OrderForm(Num(5), 3)
  /\ Defined = <<"a0", "a1", "a2", "a3">>
  /\ frames[env].bindings["a3"] = Num(3)
  /\ last.res = [k |-> "throw", msg |-> "Not a function: 5"]

(***************************************************************************)
(* C24                                                                     *)
(***************************************************************************)
\* The names of the define-macro forms that the last form evaluated.
Registered ==
  {last.trace[i].id : i \in {j \in Events("defmacro") : last.trace[j].res.k = "done"}}

\* C24: the expansion of a form leaves the macro table as it was before
\* the form; after the form the table holds the names it held before and
\* those of the define-macro forms that were evaluated, and no other; a
\* form that invokes no macro of the table as it was before the form is
\* analyzed as it was read, the invocations of a macro that the form itself
\* defines included; and (double n) is (+ n n), of value 2n, when double
\* was in the table before the form, and the call of an unbound variable
\* when it was not, as it is in the body of h, defined before double was
\* registered and called after.
C24_MacroRegisteredAtEvaluation ==
  /\ DOMAIN last.xst.macros = last.macros0
  /\ DOMAIN macros = last.macros0 \cup (IF Evaluated THEN Registered ELSE {})
  /\ (Evaluated /\ ~HasOpenMacroCall(last.src, last.macros0)) =>
       Strip(last.expanded) = last.src
  /\ \A n \in 0..MaxN :
       (last.src = Double(Num(n)) /\ last.phase # "init") =>
         IF "double" \in last.macros0
           THEN /\ Strip(last.expanded) = L(<<S("+"), Num(n), Num(n)>>)
                /\ last.res = [k |-> "done", v |-> Num(2 * n)]
           ELSE last.res = [k |-> "throw", msg |-> "Unbound variable: double"]
  /\ last.src = L(<<S("h")>>) =>
       /\ "double" \in last.macros0
       /\ last.res = [k |-> "throw", msg |-> "Unbound variable: double"]

\* (if (define-macro (double x) ...) 'ok (double 1)): the form is analyzed
\* with its invocation as it was read, and the table holds double after it.
C24_Witness ==
  /\ Evaluated
  /\ last.src = L(<<S("if"), DefDouble, Quote(S("ok")), Double(Num(1))>>)
  /\ Strip(last.expanded) = last.src
  /\ last.macros0 = {}
  /\ Registered = {"double"}
  /\ DOMAIN macros = {"double"}
  /\ last.res = [k |-> "done", v |-> Sym("ok")]

(***************************************************************************)
(* C25                                                                     *)
(***************************************************************************)
\* The j-th token of the text that lex reads, by readNextToken alone; the
\* tokens after the last are EOF.
RECURSIVE TokenAt(_, _)
TokenAt(lex, j) ==
  IF j = 1 THEN Returned(readNextToken(lex))
  ELSE TokenAt(readNextToken(lex).lex, j - 1)

\* The number of calls of next among the first i calls.
Consumed(i) == Cardinality({k \in 1..i : calls[k].op = "next"})

\* C25: each call, peek or next, returns the token that follows the tokens
\* consumed by the calls of next before it: a peek consumes nothing, so
\* the calls of peek in a row and the call that follows them return one
\* token, and a next is followed by the following token of the text, EOF
\* when the text is exhausted.
C25_PeekDoesNotConsume ==
  \A i \in DOMAIN calls :
    calls[i].token =
      TokenAt(Lexer(InputStream_fromString(lexer.input.buffer)), Consumed(i - 1) + 1)

\* On the text 42: peek, peek and next returned the number 42, and the
\* next after them EOF.
C25_Witness ==
  /\ lexer.input.buffer = "42"
  /\ Len(calls) = 4
  /\ [i \in 1..4 |-> calls[i].op] = <<"peek", "peek", "next", "next">>
  /\ \A i \in 1..3 : calls[i].token = [type |-> "Number", value |-> Num(42)]
  /\ calls[4].token.type = "EOF"

(***************************************************************************)
(* C26                                                                     *)
(***************************************************************************)
\* The defines of name in frame F that precede event i of the trace.
DefinesBefore(i, F, name) ==
  {j \in Events("define") :
     j < i /\ last.trace[j].frame = F /\ last.trace[j].id = name}

\* C26: a set! of x that completed wrote the value in the frame that was
\* the nearest holder of x before its value expression was evaluated; a
\* binding of x that the value expression made in the frame of the set!,
\* nearer than that holder, has the value the define gave it; and a set!
\* of an unbound name fails with every frame as it was, its value
\* expression not evaluated: (set! u (define w 1)) leaves one event, its
\* own, and no binding of w.
C26_SetSelectsFrameFirst ==
  /\ \A i \in Events("set") :
       LET e == last.trace[i]
       IN IF Bound(e.fs0, e.frame, e.id)
            THEN e.res.k = "done" =>
                   /\ e.fs1[Nearest(e.fs0, e.frame, e.id)].bindings[e.id] = e.res.v
                   /\ Nearest(e.fs0, e.frame, e.id) # e.frame =>
                        \A j \in DefinesBefore(i, e.frame, e.id) :
                          /\ Nearest(e.fs1, e.frame, e.id) = e.frame
                          /\ e.fs1[e.frame].bindings[e.id] =
                               last.trace[j].fs1[e.frame].bindings[e.id]
            ELSE /\ e.res = [k |-> "throw", msg |-> "set!: Unbound variable: " \o e.id]
                 /\ e.fs1 = e.fs0
  /\ \A n \in {"w", "u"} :
       (Evaluated /\ last.src = Set("u", Define(n, Num(1)))) =>
         /\ Len(last.trace) = 1
         /\ last.res = [k |-> "throw", msg |-> "set!: Unbound variable: u"]
         /\ n \notin DOMAIN frames[env].bindings

\* (set! x (if (define x 5) 7)) in the frame of a call, x being bound in
\* the top-level frame: the top-level x is 7 and the x of the call is 5.
C26_Witness ==
  /\ Evaluated
  /\ "x" \in DOMAIN frames[env].bindings
  /\ frames[env].bindings["x"] = Num(7)
  /\ last.res = [k |-> "done", v |-> Num(5)]
  /\ \E i \in Events("set") :
       /\ last.trace[i].frame # env
       /\ Nearest(last.trace[i].fs0, last.trace[i].frame, "x") = env
       /\ DefinesBefore(i, last.trace[i].frame, "x") # {}
       /\ last.trace[i].fs1[last.trace[i].frame].bindings["x"] = Num(5)
       /\ last.trace[i].fs1[env].bindings["x"] = Num(7)

(***************************************************************************)
(* C27                                                                     *)
(***************************************************************************)
\* What the transformer of double returns for the operands args: (+ x x),
\* x the first operand.
DoubleOf(args) ==
  LET x == IF IsPair(args) THEN args.car ELSE Undefined
  IN L(<<S("+"), x, x>>)

\* t, each Pair of it whose car is the symbol double replaced by what the
\* transformer returns, in every position of car and of cdr, the Pairs
\* under a Pair whose car is quote or quasiquote left as they are.
RECURSIVE Rewritten(_)
Rewritten(t) ==
  IF ~IsPair(t) \/ IsQuotation(t) THEN t
  ELSE IF IsMacroCall(t, {"double"}) THEN Rewritten(DoubleOf(t.cdr))
  ELSE P(Rewritten(t.car), Rewritten(t.cdr))

\* C27: the expander rewrites a Pair exactly when its car is a symbol that
\* names a macro and the Pair is not under a Pair whose car is quote or
\* quasiquote, whatever the position of the Pair: with double the one
\* macro of the table, the tree expandMacros returns is the form with each
\* such Pair replaced by the result of the transformer, the tail of a
\* list, the parameter list of a lambda and the header of a define
\* included.
C27_ExpandsInEveryPosition ==
  Evaluated /\ last.macros0 = {"double"} =>
    Strip(last.expanded) = Rewritten(Strip(last.src))

C27_Witness ==
  /\ Evaluated
  /\ last.macros0 = {"double"}
  /\ Strip(last.src) = L(<<S("if"), True, S("double"), Num(2)>>)
  /\ Strip(last.expanded) = L(<<S("if"), True, S("+"), Num(2), Num(2)>>)
  /\ last.res.k = "done"
  /\ last.res.v.t = "builtin"

(***************************************************************************)
(* C28                                                                     *)
(***************************************************************************)
\* An application whose operator is the variable apply.
IsApplyForm(node) ==
  /\ node.t = "application"
  /\ node.operator = [t |-> "ref", id |-> "apply"]

\* C28: no application of apply returned a thunk, in tail position
\* included; and (aloop n), which loops n times by (apply aloop ...) in tail
\* position, returns done with its n + 1 activations nested on the host
\* stack, the i-th entered at depth i.
C28_ApplyRunsClosureToCompletion ==
  /\ \A i \in DOMAIN last.thunks : ~IsApplyForm(last.thunks[i])
  /\ \A n \in {0, 1, 2} :
       (Evaluated /\ last.src = Call("aloop", n)) =>
         /\ last.res = [k |-> "done", v |-> Sym("done")]
         /\ last.thunks = <<>>
         /\ last.max = n + 1
         /\ {last.trace[i].depth : i \in Events("enter")} = 1..(n + 1)
         /\ Cardinality(Events("enter")) = n + 1

C28_Witness ==
  /\ Evaluated
  /\ last.src = Call("aloop", 2)
  /\ last.res = [k |-> "done", v |-> Sym("done")]
  /\ last.max = 3
  /\ \E i \in DOMAIN last.trace :
       /\ last.trace[i].ev = "builtin"
       /\ last.trace[i].name = "apply"
       /\ last.trace[i].args[1].t = "closure"

(***************************************************************************)
(* C29                                                                     *)
(***************************************************************************)
\* The form (p e), for the e that the last form applies list? to.
SameOperand(p) == P(S(p), Strip(last.src).cdr)

\* The one argument of the calls of the builtin name in the last form.
ArgumentsOf(name) ==
  {last.trace[i].args[1] :
     i \in {j \in Events("builtin") :
              last.trace[j].name = name /\ Len(last.trace[j].args) = 1}}

\* C29: (list? e), evaluated after (pair? e), returns what (pair? e)
\* returned: true when the value of e is a Pair, a dotted one included,
\* and false otherwise, for the empty list included.
C29_ListPredicateIsPairPredicate ==
  (/\ Evaluated
   /\ IsPair(last.src) /\ last.src.car = S("list?")
   /\ last.prev.src # Nil /\ Strip(last.prev.src) = SameOperand("pair?")) =>
    /\ last.res.k = "done"
    /\ last.res = last.prev.res
    /\ \A v \in ArgumentsOf("list?") : last.res.v = Bool(IsPair(v))
    /\ ArgumentsOf("list?") # {}

\* (list? (cons 1 2)) after (pair? (cons 1 2)): both true.
C29_Witness ==
  /\ Evaluated
  /\ Strip(last.src) = L(<<S("list?"), L(<<S("cons"), Num(1), Num(2)>>)>>)
  /\ Strip(last.prev.src) = SameOperand("pair?")
  /\ last.res = [k |-> "done", v |-> True]
  /\ last.prev.res = last.res
  /\ \E v \in ArgumentsOf("list?") : IsPair(v) /\ v.cdr = Num(2)

(***************************************************************************)
(* C30                                                                     *)
(***************************************************************************)
\* The text of the Readable: what it emitted and what it has to emit.
StreamText == stream.buffer \o readable.rest

\* The i-th call received the i-th character of the text, and null came
\* last, once the Readable ended or failed; after 'end', null came after
\* every character of the text.
InOrder ==
  \A i \in DOMAIN consumer.results :
    /\ consumer.results[i].call = i
    /\ IF consumer.results[i].value # NoChar
         THEN /\ i <= Len(StreamText)
              /\ consumer.results[i].value = SubSeq(StreamText, i, i)
         ELSE /\ i = Len(consumer.results)
              /\ readable.state # "open"
              /\ i = Len(stream.buffer) + 1
              /\ readable.state = "ended" => i = Len(StreamText) + 1

\* A call is pending exactly when its resolve function is kept, and then
\* the buffer holds no character to consume and the stream has not ended.
PendingOnlyWithoutInput ==
  /\ consumer.calls \in {Len(consumer.results), Len(consumer.results) + 1}
  /\ stream.pendingResolve = IF Awaiting THEN consumer.calls ELSE NoResolve
  /\ Awaiting => stream.pos > Len(stream.buffer) /\ ~stream.eof

\* C30: whatever the order of the 'data' chunks, of 'end' and of the calls
\* of nextChar by one caller that awaits each call, the caller receives the
\* characters of the text once each and in order, then null; no call is
\* pending while the buffer holds a character it can take or after the
\* stream has ended; and the caller does receive null.
C30_EveryCharacterThenNull ==
  /\ [](InOrder /\ PendingOnlyWithoutInput)
  /\ <>ReceivedNull

\* The five characters of (a b) and null were received after 'end', a
\* character and null through tryResolve, a character from nextChar.
C30_Witness ==
  /\ readable.state = "ended"
  /\ StreamText = "(a b)"
  /\ Len(consumer.results) = 6
  /\ ReceivedNull
  /\ consumer.results[6].by = "tryResolve"
  /\ \E i, j \in 1..5 :
       /\ consumer.results[i].by = "tryResolve"
       /\ consumer.results[j].by = "nextChar"

====
